---- MODULE Spec2Model ----
(***************************************************************************)
(* Model of the LED service of the printer (griffin/led): the service      *)
(* facade LedService, the MainLightingController and the                   *)
(* ButtonRingController, with the per-zone effect queue they drive.        *)
(*                                                                         *)
(* Units.  Colour channels are the numbers of the source (hue 0..360,      *)
(* saturation and value 0..100); the inputs are taken from grids on which  *)
(* value * user_brightness / 100 and the dark factor 0.3 are exact, so \div *)
(* is exact division here.  Time is counted in quarter seconds, and        *)
(* frequencies in tenths of a hertz.                                       *)
(***************************************************************************)
EXTENDS Integers, Sequences, FiniteSets, TLC

VARIABLES
    printer,                 \* the remote "printer" object: its properties
    machine_bom,             \* system.getMachineBOM()[0]
    prefs,                   \* RegistryFile main_lighting.json: key -> value
    saved,                   \* what RegistryFile has forced to storage
    running,                 \* LedService.__running
    main_controller,         \* LedService.__main_controller (0 is None)
    button_ring_controller,  \* LedService.__button_ring_controller (0 is None)
    ring_hardware,           \* hardware of the ButtonRingController built
    starts,                  \* number of times the body of __start has run
    left_booting,            \* LedService has observed a state that is not "booting"
    props,                   \* PropertyContainer: name -> property value
    main_color,              \* MainLightingController.__main_color
    runtime_flags,           \* MainLightingController.__runtime_flags (dict)
    m_printer_state,         \* MainLightingController.__printer_state
    m_job_state,             \* MainLightingController.__job_state
    main_queue,              \* effect queue of the main zone, head is active
    main_elapsed,            \* time since the head of main_queue started
    party_timers,            \* pending "PARTY!" timers: time left of each
    r_printer_state,         \* ButtonRingController.__printer_state
    r_job_state,             \* ButtonRingController.__job_state
    r_interaction_required,  \* ButtonRingController.__interaction_required
    customTheme,             \* ButtonRingController.__customTheme
    ring_queue,              \* effect queue of the ring zone
    ring_elapsed,            \* time since the head of ring_queue started
    op,                      \* the operation performed by the last step
    ret,                     \* what that operation returned to its caller
    calls,                   \* number of calls of the facade made so far
    evals,                   \* main-zone re-evaluations made by the last step
    r_evals,                 \* ring-zone re-evaluations made by the last step
    frames,                  \* frames the last step has emitted to the hardware
    handling,                \* the notification a handler is in the middle of
    colorTheme,              \* the shared HsvColor objects of module colorTheme
    refs                     \* the object each colour field of a controller holds

vars == << printer, machine_bom, prefs, saved, running, main_controller,
           button_ring_controller, ring_hardware, starts, left_booting, props,
           main_color, runtime_flags, m_printer_state, m_job_state,
           main_queue, main_elapsed, party_timers, r_printer_state,
           r_job_state, r_interaction_required, customTheme, ring_queue,
           ring_elapsed, op, ret, calls, evals, r_evals, frames, handling,
           colorTheme, refs >>

----------------------------------------------------------------------------
\* Bounds of the model

MaxQueue == 3          \* blink is not requested when the queue is this long
MaxTimers == 2         \* cap on simultaneously pending party timers
MaxSteadyElapsed == 0  \* ticks counted on a never-completing active effect
TickDt == 8            \* time between two ticks, in quarter seconds
MaxCalls == 2          \* calls of the facade in one run
FineDt == 1            \* time between two ticks where frames are looked at
Horizon == 30          \* elapsed times at which an effect is evaluated

----------------------------------------------------------------------------
\* Small helpers

Min(a, b) == IF a < b THEN a ELSE b

Max(a, b) == IF a > b THEN a ELSE b

Range(f) == { f[x] : x \in DOMAIN f }

----------------------------------------------------------------------------
\* Colours

HsvColor(h, s, v) == [hue |-> h, saturation |-> s, value |-> v]

\* placeholder for a colour field that does not exist
NoColor == HsvColor(-1, -1, -1)

RED == HsvColor(0, 100, 100)
YELLOW == HsvColor(60, 100, 100)
GREEN == HsvColor(120, 100, 100)
CYAN == HsvColor(180, 100, 100)
PURPLE == HsvColor(300, 100, 100)
BLACK == HsvColor(0, 0, 0)
WHITE == HsvColor(0, 0, 100)
ULTIMAKER == HsvColor(200, 100, 100)

\* the HsvColor objects of module colorTheme that a controller takes its
\* colour from, as the module is loaded
SharedColours == [ULTIMAKER |-> ULTIMAKER, WHITE |-> WHITE]

\* the object a colour field of a controller holds: one of its own ("own"),
\* or the object of colorTheme that is named; "none" before construction
NoRefs == [customTheme |-> "none", main_color |-> "none"]

\* an effect keeps the colour object it is given: the effects of queue q
\* built on the shared object name (the startup Fade of the ring, which is
\* the only Fade of that zone) show an assignment to that object
assignInQueue(q, name, channel, value) ==
    [i \in DOMAIN q |->
        IF name = "ULTIMAKER" /\ q[i].kind = "Fade"
        THEN [q[i] EXCEPT !.color[channel] = value]
        ELSE q[i]]

\* field.channel = value of a controller: the assignment is made to the
\* object the field holds, and is seen through every other reference to it
assignChannel(W, field, channel, value) ==
    LET W1 == [W EXCEPT ![field][channel] = value]
        name == W.refs[field]
    IN  IF name \in DOMAIN W.colorTheme
        THEN [W1 EXCEPT !.colorTheme[name][channel] = value,
                        !.ring_queue =
                            assignInQueue(@, name, channel, value)]
        ELSE W1

----------------------------------------------------------------------------
\* Effects.  frequency is in tenths of a hertz, duration in quarter seconds.

StaticEffect(color) ==
    [kind |-> "Static", color |-> color, color2 |-> NoColor,
     duration |-> 0, frequency |-> 0, count |-> 0]

FadeEffect(color, duration) ==
    [kind |-> "Fade", color |-> color, color2 |-> NoColor,
     duration |-> duration, frequency |-> 0, count |-> 0]

BlinkEffect(color, frequency, count) ==
    [kind |-> "Blink", color |-> color, color2 |-> NoColor,
     duration |-> 0, frequency |-> frequency, count |-> count]

GlowEffect(color_a, color_b, frequency) ==
    [kind |-> "Glow", color |-> color_a, color2 |-> color_b,
     duration |-> 0, frequency |-> frequency, count |-> 0]

\* an effect that completes (Fade, Blink), as opposed to a steady-state one
isTransient(e) == e.kind \in {"Fade", "Blink"}

\* quarter seconds after which a Blink has made count cycles
BlinkTime(e) == (e.count * 40) \div e.frequency

\* a variant in which a transient is complete at the end of its time only
isComplete_AtTheEnd(e, elapsed) ==
    CASE e.kind = "Fade" -> elapsed = e.duration
      [] e.kind = "Blink" -> elapsed = BlinkTime(e)
      [] OTHER -> FALSE

isComplete(e, elapsed) ==
    CASE e.kind = "Fade" -> elapsed >= e.duration
      [] e.kind = "Blink" -> elapsed >= BlinkTime(e)
      [] OTHER -> FALSE

\* the half cycle of a Blink that elapsed falls in, counted from 0:
\* elapsed * frequency * 2, in whole half cycles
halfCycle(e, elapsed) == (elapsed * e.frequency) \div 20

\* a variant that is off in the first half of a cycle and on in the second
produceFrame_OffFirst(e, elapsed) ==
    CASE e.kind = "Static" -> e.color
      [] e.kind = "Blink" ->
            IF halfCycle(e, elapsed) % 2 = 1 THEN e.color
            ELSE [e.color EXCEPT !.value = 0]
      [] OTHER -> NoColor

\* the colour an effect emits at elapsed.  A Static emits its colour; a Blink
\* its colour in the first half of a cycle and value 0 in the second.  The
\* frames of a Fade (which start from the colour emitted before it) and of a
\* Glow (a sine) are not computed: they are NoColor here.
produceFrame(e, elapsed) ==
    CASE e.kind = "Static" -> e.color
      [] e.kind = "Blink" ->
            IF halfCycle(e, elapsed) % 2 = 0 THEN e.color
            ELSE [e.color EXCEPT !.value = 0]
      [] OTHER -> NoColor

----------------------------------------------------------------------------
\* Scheduler of a zone: a record [queue, elapsed]

Sched(q, el) == [queue |-> q, elapsed |-> el]

hasEffectInQueue(q) == Len(q) > 1

\* a variant that replaces a steady-state effect only when it is the last
\* entry of the queue
queueEffect_ReplaceLast(S, e) ==
    LET n == Len(S.queue)
        kept == IF ~isTransient(e) /\ n > 0 /\ ~isTransient(S.queue[n])
                THEN SubSeq(S.queue, 1, n - 1) ELSE S.queue
    IN  Sched(Append(kept, e),
              IF kept = << >> THEN 0 ELSE S.elapsed)

\* a variant that only appends
queueEffect_AppendOnly(S, e) ==
    Sched(Append(S.queue, e), IF S.queue = << >> THEN 0 ELSE S.elapsed)

queueEffect(S, e) ==
    LET kept == IF isTransient(e) THEN S.queue
                ELSE SelectSeq(S.queue, isTransient)
        q == Append(kept, e)
        sameHead == S.queue # << >> /\ kept # << >>
                    /\ Head(kept) = Head(S.queue)
                    /\ isTransient(Head(S.queue))
    IN  Sched(q, IF sameHead THEN S.elapsed ELSE 0)

\* the frame a tick hands to the hardware sink of zone: that of the active
\* effect at its elapsed time; none when the zone has no effect
emitFrame(zone, S) ==
    IF S.queue = << >> THEN << >>
    ELSE << [zone |-> zone, effect |-> Head(S.queue), elapsed |-> S.elapsed,
             color |-> produceFrame(Head(S.queue), S.elapsed)] >>

\* a variant that gives way to the next entry whether complete or not
tick_PopIncomplete(S, dt) ==
    IF S.queue = << >> THEN S
    ELSE IF Len(S.queue) > 1 THEN Sched(Tail(S.queue), 0)
    ELSE Sched(S.queue, S.elapsed)

\* a variant that removes a completed active effect also when it is the last
tick_PopLast(S, dt) ==
    IF S.queue = << >> THEN S
    ELSE IF isComplete(Head(S.queue), S.elapsed + dt)
         THEN Sched(Tail(S.queue), 0)
         ELSE Sched(S.queue, S.elapsed + dt)

\* one tick of a zone, dt after the previous one: a completed active effect
\* gives way to the next entry when there is one
tick(S, dt) ==
    IF S.queue = << >> THEN S
    ELSE LET hd == Head(S.queue)
             el == S.elapsed + dt
         IN  IF isComplete(hd, el) /\ Len(S.queue) > 1
             THEN Sched(Tail(S.queue), 0)
             ELSE IF isTransient(hd)
                  THEN Sched(S.queue, IF isComplete(hd, S.elapsed)
                                      THEN S.elapsed ELSE el)
                  ELSE Sched(S.queue, Min(el, MaxSteadyElapsed * dt))

----------------------------------------------------------------------------
\* MainLightingController

MODE_FLAG_GLOW_WHEN_FINISHED == "glow_when_print_is_finished"
MODE_FLAG_ON_WHEN_PRINTING == "on_when_printing"
MODE_FLAG_PARTY == "party"
RUNTIME_FLAG_AUTHENTICATING == "authenticating"
RUNTIME_FLAG_MESSAGE == "message"

ALL_MODE_FLAGS ==
    {MODE_FLAG_GLOW_WHEN_FINISHED, MODE_FLAG_ON_WHEN_PRINTING, MODE_FLAG_PARTY}

ALL_RUNTIME_FLAGS == {RUNTIME_FLAG_AUTHENTICATING, RUNTIME_FLAG_MESSAGE}

DEFAULT_MODE_SETTINGS ==
    [k \in ALL_MODE_FLAGS |-> k = MODE_FLAG_GLOW_WHEN_FINISHED]

DEFAULT_USER_BRIGHTNESS == 100

STARTUP_FADE_TIME == 24

DEFAULT_GLOW_FREQUENCY == 1

\* the factor 0.3 as a fraction: numerator over DARK_DENOMINATOR
DARK_COLOR_BRIGHTNESS_FACTOR == 3

DARK_DENOMINATOR == 10

PARTY_FADE_TIME == 8

PARTY_TIMER_TIME == 8

PARTY_SATURATION == 100

\* The state of the service and of its controllers as one record W, with the
\* fields named as the variables, so that the calls a handler makes compose.
Now ==
    [printer |-> printer, machine_bom |-> machine_bom, prefs |-> prefs,
     saved |-> saved, running |-> running,
     main_controller |-> main_controller,
     button_ring_controller |-> button_ring_controller,
     ring_hardware |-> ring_hardware, starts |-> starts,
     left_booting |-> left_booting, props |-> props, main_color |-> main_color,
     runtime_flags |-> runtime_flags, m_printer_state |-> m_printer_state,
     m_job_state |-> m_job_state, main_queue |-> main_queue,
     main_elapsed |-> main_elapsed, party_timers |-> party_timers,
     r_printer_state |-> r_printer_state, r_job_state |-> r_job_state,
     r_interaction_required |-> r_interaction_required,
     customTheme |-> customTheme, ring_queue |-> ring_queue,
     ring_elapsed |-> ring_elapsed, evals |-> << >>, r_evals |-> << >>,
     frames |-> << >>, colorTheme |-> colorTheme, refs |-> refs]

\* the step ends in the state W; the bounds of the model are kept
Becomes(W) ==
    /\ Len(W.main_queue) <= MaxQueue
    /\ Len(W.party_timers) <= MaxTimers
    /\ printer' = W.printer
    /\ machine_bom' = W.machine_bom
    /\ prefs' = W.prefs
    /\ saved' = W.saved
    /\ running' = W.running
    /\ main_controller' = W.main_controller
    /\ button_ring_controller' = W.button_ring_controller
    /\ ring_hardware' = W.ring_hardware
    /\ starts' = W.starts
    /\ left_booting' = W.left_booting
    /\ props' = W.props
    /\ main_color' = W.main_color
    /\ runtime_flags' = W.runtime_flags
    /\ m_printer_state' = W.m_printer_state
    /\ m_job_state' = W.m_job_state
    /\ main_queue' = W.main_queue
    /\ main_elapsed' = W.main_elapsed
    /\ party_timers' = W.party_timers
    /\ r_printer_state' = W.r_printer_state
    /\ r_job_state' = W.r_job_state
    /\ r_interaction_required' = W.r_interaction_required
    /\ customTheme' = W.customTheme
    /\ ring_queue' = W.ring_queue
    /\ ring_elapsed' = W.ring_elapsed
    /\ evals' = W.evals
    /\ r_evals' = W.r_evals
    /\ frames' = W.frames
    /\ colorTheme' = W.colorTheme
    /\ refs' = W.refs

\* The values that calls take and return: a float, a bool, a str or None,
\* each with its type.
PyValue(kind, number, bool, text) ==
    [kind |-> kind, number |-> number, bool |-> bool, text |-> text]

Float(x) == PyValue("float", x, FALSE, "")

Bool(b) == PyValue("bool", 0, b, "")

Str(s) == PyValue("str", 0, FALSE, s)

None == PyValue("None", 0, FALSE, "")

\* the outcome of a call: the state it leaves, whether it raised, and what it
\* returned (None for a method without a return value) or raised
Return(W, value) == [w |-> W, raised |-> FALSE, ret |-> value]

Raise(W, exception) == [w |-> W, raised |-> TRUE, ret |-> Str(exception)]

\* a variant in which the failing tick has advanced before it fails
tickFailing_Advances(S, dt) == tick(S, dt)

\* a tick of a zone whose frame production throws: the tick is abandoned
\* for that cycle, the queue and the start time of the active effect stay
\* as they were, and the time dt has passed
tickFailing(S, dt) ==
    IF S.queue = << >> THEN S
    ELSE LET hd == Head(S.queue)
         IN  IF isTransient(hd)
             THEN Sched(S.queue, IF isComplete(hd, S.elapsed)
                                 THEN S.elapsed ELSE S.elapsed + dt)
             ELSE Sched(S.queue, Min(S.elapsed + dt, MaxSteadyElapsed * dt))

\* AbstractController._queueEffect on the main zone
main_queueEffect(W, e) ==
    LET S == queueEffect(Sched(W.main_queue, W.main_elapsed), e)
    IN  [W EXCEPT !.main_queue = S.queue, !.main_elapsed = S.elapsed]

getModeFlag(W, flag_name) == W.props[flag_name]

getRuntimeFlag(W, flag_name) ==
    IF flag_name \in DOMAIN W.runtime_flags
    THEN W.runtime_flags[flag_name] ELSE FALSE

getUserBrightness(W) == W.props["user_brightness"]

getColor(W) ==
    HsvColor(W.main_color.hue, W.main_color.saturation,
             (W.main_color.value * getUserBrightness(W)) \div 100)

\* a variant that forgets the dark factor
getDarkColor_NotDark(W) == getColor(W)

getDarkColor(W) ==
    LET color == getColor(W)
    IN  [color EXCEPT !.value =
            (color.value * DARK_COLOR_BRIGHTNESS_FACTOR) \div DARK_DENOMINATOR]

stateIsPrinting(W) == W.m_printer_state = "printing"

\* a variant that tests for another state name
stateIsError_Failure(W) == W.m_printer_state = "failure"

stateIsError(W) == W.m_printer_state = "error"

stateIsMaintenance(W) == W.m_printer_state = "maintenance"

\* a variant that forgets the job state "none"
stateIsWaitingForCleanup_OnlyCleanup(W) ==
    W.m_printer_state = "printing" /\ W.m_job_state = "wait_cleanup"

stateIsWaitingForCleanup(W) ==
    W.m_printer_state = "printing"
    /\ (W.m_job_state = "wait_cleanup" \/ W.m_job_state = "none")

NoEffect ==
    [kind |-> "None", color |-> NoColor, color2 |-> NoColor,
     duration |-> 0, frequency |-> 0, count |-> 0]

\* the record of one run of __update: the state it ran in, the effect it
\* handed to _queueEffect and whether it started a timer
Eval(W, effect, timer) ==
    [party |-> W.props[MODE_FLAG_PARTY],
     runtime_flags |-> W.runtime_flags,
     printer_state |-> W.m_printer_state, job_state |-> W.m_job_state,
     queue_len |-> Len(W.main_queue),
     user_brightness |-> W.props["user_brightness"],
     main_color |-> W.main_color,
     effect |-> effect, timer |-> timer]

\* __update hands effect e to _queueEffect, and starts a timer when timer
\* is true; the run is recorded in evals
updateWith(W, e, timer) ==
    LET W1 == IF e = NoEffect THEN W ELSE main_queueEffect(W, e)
        W2 == IF timer
              THEN [W1 EXCEPT !.party_timers = Append(@, PARTY_TIMER_TIME)]
              ELSE W1
    IN  [W2 EXCEPT !.evals = Append(@, Eval(W, e, timer))]

\* a variant of __update that does not look at the queue in party mode
update_NoQueueCheck(W, random_hue) ==
    IF getModeFlag(W, MODE_FLAG_PARTY)
    THEN updateWith(W, FadeEffect(HsvColor(random_hue, PARTY_SATURATION,
                                           getUserBrightness(W)),
                                  PARTY_FADE_TIME), TRUE)
    ELSE IF getRuntimeFlag(W, RUNTIME_FLAG_AUTHENTICATING)
            \/ getRuntimeFlag(W, RUNTIME_FLAG_MESSAGE)
    THEN updateWith(W, GlowEffect(getColor(W), getDarkColor(W),
                                  DEFAULT_GLOW_FREQUENCY), FALSE)
    ELSE IF stateIsWaitingForCleanup(W)
    THEN updateWith(W, StaticEffect(PURPLE), FALSE)
    ELSE IF stateIsPrinting(W)
    THEN updateWith(W, StaticEffect(CYAN), FALSE)
    ELSE IF stateIsMaintenance(W)
    THEN updateWith(W, StaticEffect(YELLOW), FALSE)
    ELSE IF stateIsError(W)
    THEN updateWith(W, StaticEffect(RED), FALSE)
    ELSE updateWith(W, StaticEffect(GREEN), FALSE)

\* MainLightingController.__update; random_hue is the value that
\* random.uniform(0, 360) returns
update(W, random_hue) ==
    IF getModeFlag(W, MODE_FLAG_PARTY)
    THEN IF ~hasEffectInQueue(W.main_queue)
         THEN updateWith(W, FadeEffect(HsvColor(random_hue, PARTY_SATURATION,
                                                getUserBrightness(W)),
                                       PARTY_FADE_TIME), TRUE)
         ELSE updateWith(W, NoEffect, FALSE)
    ELSE IF getRuntimeFlag(W, RUNTIME_FLAG_AUTHENTICATING)
            \/ getRuntimeFlag(W, RUNTIME_FLAG_MESSAGE)
    THEN updateWith(W, GlowEffect(getColor(W), getDarkColor(W),
                                  DEFAULT_GLOW_FREQUENCY), FALSE)
    ELSE IF stateIsWaitingForCleanup(W)
    THEN updateWith(W, StaticEffect(PURPLE), FALSE)
    ELSE IF stateIsPrinting(W)
    THEN updateWith(W, StaticEffect(CYAN), FALSE)
    ELSE IF stateIsMaintenance(W)
    THEN updateWith(W, StaticEffect(YELLOW), FALSE)
    ELSE IF stateIsError(W)
    THEN updateWith(W, StaticEffect(RED), FALSE)
    ELSE updateWith(W, StaticEffect(GREEN), FALSE)

\* PropertyContainer.setPropertyValue on a NonVolatileProperty of the main
\* controller: the value is written through to the registry and the
\* subscriber (lambda: self.__update()) is called
setPropertyValue(W, name, value, random_hue) ==
    update([W EXCEPT !.props[name] = value,
                     !.prefs = [k \in DOMAIN @ \cup {name} |->
                                   IF k = name THEN value ELSE @[k]]],
           random_hue)

\* a variant whose startup Fade goes to the main colour as it is, not to the
\* colour limited by the user brightness
MainLightingController_UnscaledFade(W) ==
    LET has(k) == k \in DOMAIN W.prefs
        stored(k) ==
            IF has(k) THEN W.prefs[k]
            ELSE IF k = "user_brightness" THEN DEFAULT_USER_BRIGHTNESS
            ELSE DEFAULT_MODE_SETTINGS[k]
        keys == ALL_MODE_FLAGS \cup {"user_brightness"}
        W1 == [W EXCEPT
                 !.prefs = [k \in DOMAIN @ \cup keys |-> stored(k)],
                 !.props = [k \in DOMAIN @ \cup keys |-> stored(k)],
                 !.main_color = W.colorTheme.WHITE,
                 !.refs.main_color = "own",
                 !.runtime_flags = << >>,
                 !.m_printer_state = W.printer.state,
                 !.m_job_state = W.printer.job_state,
                 !.party_timers = << >>]
    IN  main_queueEffect([W1 EXCEPT !.main_queue = << >>, !.main_elapsed = 0],
                         FadeEffect(W1.main_color, STARTUP_FADE_TIME))

\* MainLightingController.__init__
MainLightingController(W) ==
    LET has(k) == k \in DOMAIN W.prefs
        stored(k) ==
            IF has(k) THEN W.prefs[k]
            ELSE IF k = "user_brightness" THEN DEFAULT_USER_BRIGHTNESS
            ELSE DEFAULT_MODE_SETTINGS[k]
        keys == ALL_MODE_FLAGS \cup {"user_brightness"}
        W1 == [W EXCEPT
                 !.prefs = [k \in DOMAIN @ \cup keys |-> stored(k)],
                 !.props = [k \in DOMAIN @ \cup keys |-> stored(k)],
                 !.main_color = W.colorTheme.WHITE,
                 !.refs.main_color = "own",
                 !.runtime_flags = << >>,
                 !.m_printer_state = W.printer.state,
                 !.m_job_state = W.printer.job_state,
                 !.party_timers = << >>]
    IN  main_queueEffect([W1 EXCEPT !.main_queue = << >>, !.main_elapsed = 0],
                         FadeEffect(getColor(W1), STARTUP_FADE_TIME))

\* a variant that does not force the registry to storage
resetToDefaultValues_NoSave(W) ==
    LET keys == ALL_MODE_FLAGS \cup {"user_brightness"}
        p == [k \in DOMAIN W.prefs \cup keys |->
                 IF k \in ALL_MODE_FLAGS THEN DEFAULT_MODE_SETTINGS[k]
                 ELSE IF k = "user_brightness" THEN DEFAULT_USER_BRIGHTNESS
                 ELSE W.prefs[k]]
    IN  [W EXCEPT !.prefs = p]

\* MainLightingController.resetToDefaultValues: the registry is written, not
\* the properties of the running controller
resetToDefaultValues(W) ==
    LET keys == ALL_MODE_FLAGS \cup {"user_brightness"}
        p == [k \in DOMAIN W.prefs \cup keys |->
                 IF k \in ALL_MODE_FLAGS THEN DEFAULT_MODE_SETTINGS[k]
                 ELSE IF k = "user_brightness" THEN DEFAULT_USER_BRIGHTNESS
                 ELSE W.prefs[k]]
    IN  [W EXCEPT !.prefs = p, !.saved = p]

\* a variant that wraps the hue into 0..360
setMainColorHue_Wrap(W, hue, random_hue) ==
    update([W EXCEPT !.main_color.hue = hue % 360], random_hue)

setMainColorHue(W, hue, random_hue) ==
    update(assignChannel(W, "main_color", "hue", hue), random_hue)

setMainColorSaturation(W, saturation, random_hue) ==
    update(assignChannel(W, "main_color", "saturation", saturation),
           random_hue)

setMainColorBrightness(W, brightness, random_hue) ==
    update(assignChannel(W, "main_color", "value", brightness), random_hue)

getMainColorHue(W) == W.main_color.hue

getMainColorSaturation(W) == W.main_color.saturation

getMainColorBrightness(W) == W.main_color.value

blink(W, frequency, count) ==
    main_queueEffect(W, BlinkEffect(getColor(W), frequency, count))

\* a variant of setModeFlag without the assert
setModeFlag_NoAssert(W, flag_name, new_value, random_hue1, random_hue2) ==
    Return(update(setPropertyValue(W, flag_name, new_value, random_hue1),
                  random_hue2), None)

\* setModeFlag: after the assert the property's subscriber re-evaluates
\* (random_hue1), then setModeFlag re-evaluates itself (random_hue2)
setModeFlag(W, flag_name, new_value, random_hue1, random_hue2) ==
    IF flag_name \notin ALL_MODE_FLAGS THEN Raise(W, "AssertionError")
    ELSE Return(update(setPropertyValue(W, flag_name, new_value,
                                        random_hue1), random_hue2), None)

\* a variant of setRuntimeFlag that ignores an unknown flag name
setRuntimeFlag_IgnoreUnknown(W, flag_name, new_value, random_hue) ==
    IF flag_name \notin ALL_RUNTIME_FLAGS THEN Return(W, None)
    ELSE Return(update([W EXCEPT !.runtime_flags =
                          [k \in DOMAIN @ \cup {flag_name} |->
                              IF k = flag_name THEN new_value ELSE @[k]]],
                       random_hue), None)

setRuntimeFlag(W, flag_name, new_value, random_hue) ==
    IF flag_name \notin ALL_RUNTIME_FLAGS THEN Raise(W, "AssertionError")
    ELSE Return(update([W EXCEPT !.runtime_flags =
                          [k \in DOMAIN @ \cup {flag_name} |->
                              IF k = flag_name THEN new_value ELSE @[k]]],
                       random_hue), None)

\* getModeFlag and getRuntimeFlag as called from outside, with their asserts
callGetModeFlag(W, flag_name) ==
    IF flag_name \notin ALL_MODE_FLAGS THEN Raise(W, "AssertionError")
    ELSE Return(W, Bool(getModeFlag(W, flag_name)))

callGetRuntimeFlag(W, flag_name) ==
    IF flag_name \notin ALL_RUNTIME_FLAGS THEN Raise(W, "AssertionError")
    ELSE Return(W, Bool(getRuntimeFlag(W, flag_name)))

\* a variant that assigns the value and the registry entry itself, without
\* the property container
setUserBrightness_NoContainer(W, user_brightness, random_hue) ==
    LET v == Max(0, Min(user_brightness, 100))
    IN  [W EXCEPT !.props["user_brightness"] = v,
                  !.prefs = [k \in DOMAIN @ \cup {"user_brightness"} |->
                                IF k = "user_brightness" THEN v ELSE @[k]]]

\* a variant that stores the brightness as it is given
setUserBrightness_NoClamp(W, user_brightness, random_hue) ==
    setPropertyValue(W, "user_brightness", user_brightness, random_hue)

setUserBrightness(W, user_brightness, random_hue) ==
    setPropertyValue(W, "user_brightness",
                     Max(0, Min(user_brightness, 100)), random_hue)

\* a variant of the handler that stores a job state without re-evaluating
main_onPrinterPropertyChanged_NoJobUpdate(W, property_key, value, random_hue) ==
    LET W1 == IF property_key = "state"
              THEN update([W EXCEPT !.m_printer_state = value], random_hue)
              ELSE W
    IN  IF property_key = "job_state"
        THEN [W1 EXCEPT !.m_job_state = value]
        ELSE W1

\* a variant of the handler that re-evaluates on every other property too
main_onPrinterPropertyChanged_AnyKey(W, property_key, value, random_hue) ==
    IF property_key = "state"
    THEN update([W EXCEPT !.m_printer_state = value], random_hue)
    ELSE IF property_key = "job_state"
    THEN update([W EXCEPT !.m_job_state = value], random_hue)
    ELSE update(W, random_hue)

\* MainLightingController.__onPrinterPropertyChanged
main_onPrinterPropertyChanged(W, property_key, value, random_hue) ==
    LET W1 == IF property_key = "state"
              THEN update([W EXCEPT !.m_printer_state = value], random_hue)
              ELSE W
    IN  IF property_key = "job_state"
        THEN update([W1 EXCEPT !.m_job_state = value], random_hue)
        ELSE W1

----------------------------------------------------------------------------
\* ButtonRingController

RING_STARTUP_FADE_TIME == 24

RING_GLOW_FREQUENCY == 5

\* AbstractController._queueEffect on the ring zone
ring_queueEffect(W, e) ==
    LET S == queueEffect(Sched(W.ring_queue, W.ring_elapsed), e)
    IN  [W EXCEPT !.ring_queue = S.queue, !.ring_elapsed = S.elapsed]

\* the record of one run of ButtonRingController.__update
RingEval(W, effect) ==
    [printer_state |-> W.r_printer_state, job_state |-> W.r_job_state,
     interaction_required |-> W.r_interaction_required,
     customTheme |-> W.customTheme, effect |-> effect]

ring_updateWith(W, e) ==
    [ring_queueEffect(W, e) EXCEPT !.r_evals = Append(@, RingEval(W, e))]

\* a variant of the ring's __update that tests interaction_required first
ring_update_InteractionFirst(W) ==
    IF W.r_interaction_required
    THEN ring_updateWith(W, GlowEffect(BLACK, YELLOW, RING_GLOW_FREQUENCY))
    ELSE IF W.r_printer_state = "error"
    THEN ring_updateWith(W, GlowEffect(BLACK, RED, RING_GLOW_FREQUENCY))
    ELSE IF W.r_printer_state = "printing" /\ W.r_job_state = "wait_cleanup"
    THEN ring_updateWith(W, GlowEffect(BLACK, PURPLE, RING_GLOW_FREQUENCY))
    ELSE IF W.r_printer_state = "printing" /\ W.r_job_state = "paused"
    THEN ring_updateWith(W, GlowEffect(BLACK, CYAN, RING_GLOW_FREQUENCY))
    ELSE ring_updateWith(W, StaticEffect(W.customTheme))

\* ButtonRingController.__update
ring_update(W) ==
    IF W.r_printer_state = "error"
    THEN ring_updateWith(W, GlowEffect(BLACK, RED, RING_GLOW_FREQUENCY))
    ELSE IF W.r_interaction_required
    THEN ring_updateWith(W, GlowEffect(BLACK, YELLOW, RING_GLOW_FREQUENCY))
    ELSE IF W.r_printer_state = "printing" /\ W.r_job_state = "wait_cleanup"
    THEN ring_updateWith(W, GlowEffect(BLACK, PURPLE, RING_GLOW_FREQUENCY))
    ELSE IF W.r_printer_state = "printing" /\ W.r_job_state = "paused"
    THEN ring_updateWith(W, GlowEffect(BLACK, CYAN, RING_GLOW_FREQUENCY))
    ELSE ring_updateWith(W, StaticEffect(W.customTheme))

\* a variant that keeps colorTheme.ULTIMAKER itself as the custom theme
ButtonRingController_NoCopy(W, hardware) ==
    LET W1 == ring_queueEffect(
                  [W EXCEPT !.ring_queue = << >>, !.ring_elapsed = 0],
                  FadeEffect(W.colorTheme.ULTIMAKER, RING_STARTUP_FADE_TIME))
    IN  [W1 EXCEPT !.ring_hardware = hardware,
                   !.r_printer_state = W.printer.state,
                   !.r_job_state = W.printer.job_state,
                   !.r_interaction_required = W.printer.interaction_required,
                   !.customTheme = W.colorTheme.ULTIMAKER,
                   !.refs.customTheme = "ULTIMAKER"]

\* ButtonRingController.__init__: the startup Fade is given the object
\* colorTheme.ULTIMAKER, the custom theme is a copy of it
ButtonRingController(W, hardware) ==
    LET W1 == ring_queueEffect(
                  [W EXCEPT !.ring_queue = << >>, !.ring_elapsed = 0],
                  FadeEffect(W.colorTheme.ULTIMAKER, RING_STARTUP_FADE_TIME))
    IN  [W1 EXCEPT !.ring_hardware = hardware,
                   !.r_printer_state = W.printer.state,
                   !.r_job_state = W.printer.job_state,
                   !.r_interaction_required = W.printer.interaction_required,
                   !.customTheme = W.colorTheme.ULTIMAKER,
                   !.refs.customTheme = "own"]

\* a variant that re-evaluates before it stores a job state
ring_onPrinterPropertyChanged_UpdateFirst(W, property_key, value) ==
    LET W1 == IF property_key = "state"
              THEN ring_update([W EXCEPT !.r_printer_state = value])
              ELSE W
        W2 == IF property_key = "job_state"
              THEN [ring_update(W1) EXCEPT !.r_job_state = value]
              ELSE W1
    IN  IF property_key = "interaction_required"
        THEN ring_update([W2 EXCEPT !.r_interaction_required = value])
        ELSE W2

\* ButtonRingController.__onPrinterPropertyChanged
ring_onPrinterPropertyChanged(W, property_key, value) ==
    LET W1 == IF property_key = "state"
              THEN ring_update([W EXCEPT !.r_printer_state = value])
              ELSE W
        W2 == IF property_key = "job_state"
              THEN ring_update([W1 EXCEPT !.r_job_state = value])
              ELSE W1
    IN  IF property_key = "interaction_required"
        THEN ring_update([W2 EXCEPT !.r_interaction_required = value])
        ELSE W2

getCustomRingHue(W) == W.customTheme.hue

getCustomRingSaturation(W) == W.customTheme.saturation

getCustomRingBrightness(W) == W.customTheme.value

\* a variant that stores the hue without re-evaluating
setCustomRingHue_NoUpdate(W, hue) == [W EXCEPT !.customTheme.hue = hue]

setCustomRingHue(W, hue) ==
    ring_update(assignChannel(W, "customTheme", "hue", hue))

setCustomRingSaturation(W, saturation) ==
    ring_update(assignChannel(W, "customTheme", "saturation", saturation))

setCustomRingBrightness(W, brightness) ==
    ring_update(assignChannel(W, "customTheme", "value", brightness))

----------------------------------------------------------------------------
\* LedService

\* the machine types that have a button ring: UM3 and UM3 Extended
RING_MACHINES == {"9066", "9511"}

\* a variant that keeps the ring controller on the dummy hardware too
start_BindDummy(W) ==
    IF W.running THEN W
    ELSE LET W1 == [W EXCEPT !.running = TRUE, !.starts = @ + 1]
             W2 == [MainLightingController(W1) EXCEPT
                      !.main_controller = W1.starts]
         IN  IF W2.machine_bom \in RING_MACHINES
             THEN [ButtonRingController(W2, "ButtonRingHardware") EXCEPT
                      !.button_ring_controller = W1.starts]
             ELSE [ButtonRingController(W2, "DummyHardware") EXCEPT
                      !.button_ring_controller = W1.starts]

\* a variant of __start without the __running flag
start_NoGuard(W) ==
    LET W1 == [W EXCEPT !.running = TRUE, !.starts = @ + 1]
        W2 == [MainLightingController(W1) EXCEPT
                 !.main_controller = W1.starts]
    IN  IF W2.machine_bom \in RING_MACHINES
        THEN [ButtonRingController(W2, "ButtonRingHardware") EXCEPT
                 !.button_ring_controller = W1.starts]
        ELSE ButtonRingController(W2, "DummyHardware")

\* LedService.__start; a controller is identified by the number of the run
\* of __start that built it
start(W) ==
    IF W.running THEN W
    ELSE LET W1 == [W EXCEPT !.running = TRUE, !.starts = @ + 1]
             W2 == [MainLightingController(W1) EXCEPT
                      !.main_controller = W1.starts]
         IN  IF W2.machine_bom \in RING_MACHINES
             THEN [ButtonRingController(W2, "ButtonRingHardware") EXCEPT
                      !.button_ring_controller = W1.starts]
             ELSE ButtonRingController(W2, "DummyHardware")

\* a variant that starts on the state "idle" only
onPrinterStateChanged_OnlyIdle(W, state) ==
    LET W1 == [W EXCEPT !.left_booting = @ \/ state # "booting"]
    IN  IF state = "idle" THEN start(W1) ELSE W1

\* LedService._onPrinterStateChanged
onPrinterStateChanged(W, state) ==
    LET W1 == [W EXCEPT !.left_booting = @ \/ state # "booting"]
    IN  IF state # "booting" THEN start(W1) ELSE W1

\* LedService.__onPrinterPropertyChanged
service_onPrinterPropertyChanged(W, key, value) ==
    IF key = "state" THEN onPrinterStateChanged(W, value) ELSE W

\* the service before the last statement of LedService.__init__
Unstarted(p, bom, registry) ==
    [printer |-> p, machine_bom |-> bom, prefs |-> registry,
     saved |-> registry, running |-> FALSE, main_controller |-> 0,
     button_ring_controller |-> 0, ring_hardware |-> "none", starts |-> 0,
     left_booting |-> FALSE, props |-> << >>, main_color |-> NoColor,
     runtime_flags |-> << >>, m_printer_state |-> "unset",
     m_job_state |-> "unset", main_queue |-> << >>, main_elapsed |-> 0,
     party_timers |-> << >>, r_printer_state |-> "unset",
     r_job_state |-> "unset", r_interaction_required |-> FALSE,
     customTheme |-> NoColor, ring_queue |-> << >>, ring_elapsed |-> 0,
     evals |-> << >>, r_evals |-> << >>, frames |-> << >>,
     colorTheme |-> SharedColours, refs |-> NoRefs]

\* LedService.__init__
LedService(p, bom, registry) ==
    onPrinterStateChanged(Unstarted(p, bom, registry), p.state)

\* the facade: each method gives the outcome of a call

\* a variant that resets the stored settings without a controller
resetSettings_Unguarded(W) == Return(resetToDefaultValues(W), None)

resetSettings(W) ==
    IF W.main_controller # 0 THEN Return(resetToDefaultValues(W), None)
    ELSE Return(W, None)

setMainLightingHue(W, hue, random_hue) ==
    IF W.main_controller = 0 THEN Return(W, None)
    ELSE Return(setMainColorHue(W, hue, random_hue), None)

getMainLightingHue(W) ==
    IF W.main_controller = 0 THEN Return(W, Float(0))
    ELSE Return(W, Float(getMainColorHue(W)))

setMainLightingSaturation(W, saturation, random_hue) ==
    IF W.main_controller = 0 THEN Return(W, None)
    ELSE Return(setMainColorSaturation(W, saturation, random_hue), None)

getMainLightingSaturation(W) ==
    IF W.main_controller = 0 THEN Return(W, Float(0))
    ELSE Return(W, Float(getMainColorSaturation(W)))

setMainLightingBrightness(W, brightness, random_hue) ==
    IF W.main_controller = 0 THEN Return(W, None)
    ELSE Return(setMainColorBrightness(W, brightness, random_hue), None)

getMainLightingBrightness(W) ==
    IF W.main_controller = 0 THEN Return(W, Float(0))
    ELSE Return(W, Float(getMainColorBrightness(W)))

setRingLightingHue(W, hue) ==
    IF W.button_ring_controller = 0 THEN Return(W, None)
    ELSE Return(setCustomRingHue(W, hue), None)

getRingLightingHue(W) ==
    IF W.button_ring_controller = 0 THEN Return(W, Float(0))
    ELSE Return(W, Float(getCustomRingHue(W)))

setRingLightingSaturation(W, saturation) ==
    IF W.button_ring_controller = 0 THEN Return(W, None)
    ELSE Return(setCustomRingSaturation(W, saturation), None)

getRingLightingSaturation(W) ==
    IF W.button_ring_controller = 0 THEN Return(W, Float(0))
    ELSE Return(W, Float(getCustomRingSaturation(W)))

setRingLightingBrightness(W, brightness) ==
    IF W.button_ring_controller = 0 THEN Return(W, None)
    ELSE Return(setCustomRingBrightness(W, brightness), None)

getRingLightingBrightness(W) ==
    IF W.button_ring_controller = 0 THEN Return(W, Float(0))
    ELSE Return(W, Float(getCustomRingBrightness(W)))

setMainLightingUserBrightness(W, brightness, random_hue) ==
    IF W.main_controller = 0 THEN Return(W, None)
    ELSE Return(setUserBrightness(W, brightness, random_hue), None)

\* a variant that answers the default brightness without a controller
getMainLightingUserBrightness_Default(W) ==
    IF W.main_controller = 0 THEN Return(W, Float(DEFAULT_USER_BRIGHTNESS))
    ELSE Return(W, Float(getUserBrightness(W)))

getMainLightingUserBrightness(W) ==
    IF W.main_controller = 0 THEN Return(W, Float(0))
    ELSE Return(W, Float(getUserBrightness(W)))

setMainLightingModeFlag(W, flag_name, new_mode, random_hue1, random_hue2) ==
    IF W.main_controller = 0 THEN Return(W, None)
    ELSE setModeFlag(W, flag_name, new_mode, random_hue1, random_hue2)

getMainLightingModeFlag(W, flag_name) ==
    IF W.main_controller = 0 THEN Return(W, Bool(FALSE))
    ELSE callGetModeFlag(W, flag_name)

setMainLightingRuntimeFlag(W, flag_name, new_mode, random_hue) ==
    IF W.main_controller = 0 THEN Return(W, None)
    ELSE setRuntimeFlag(W, flag_name, new_mode, random_hue)

getMainLightingRuntimeFlag(W, flag_name) ==
    IF W.main_controller = 0 THEN Return(W, Bool(FALSE))
    ELSE callGetRuntimeFlag(W, flag_name)

blinkMainLighting(W, frequency, count) ==
    IF W.main_controller = 0 THEN Return(W, None)
    ELSE Return(blink(W, frequency, count), None)

----------------------------------------------------------------------------
\* The inputs

PrinterStates == {"booting", "idle", "printing", "maintenance", "error"}

JobStates == {"none", "printing", "paused", "wait_cleanup"}

MachineBOMs == {"9066", "9051"}

\* what main_lighting.json holds when the service starts: nothing (a fresh
\* setup), or the settings a user has stored
StoredRegistry ==
    [k \in ALL_MODE_FLAGS \cup {"user_brightness"} |->
        IF k = "user_brightness" THEN 50 ELSE k # MODE_FLAG_GLOW_WHEN_FINISHED]

Registries == {<< >>, StoredRegistry}

Printers ==
    [state : PrinterStates, job_state : JobStates,
     interaction_required : BOOLEAN]

\* the values of random.uniform(0, 360) that are drawn
RandomHues == {240}

HueInputs == {400}

SaturationInputs == {50}

BrightnessInputs == {200}

UserBrightnessInputs == {-10, 150}

ModeFlagNames == ALL_MODE_FLAGS \cup {"disco"}

RuntimeFlagNames == ALL_RUNTIME_FLAGS \cup {"disco"}

\* blink requests: frequency in tenths of a hertz, and count
BlinkFrequencies == {10}

BlinkCounts == {1}

\* the values a notification of key carries, for the printers of a run
PropertyValues(printers, key) == { p[key] : p \in printers }

----------------------------------------------------------------------------
\* The steps

Op(name, key, value) == [name |-> name, key |-> key, value |-> value]

\* no handler of a notification is in progress
NoHandling == [pc |-> "idle", key |-> "", value |-> None]

\* the step is the event name(key, value) with outcome C
Event(name, key, value, C) ==
    /\ op' = Op(name, key, value)
    /\ ret' = [raised |-> C.raised, value |-> C.ret]
    /\ Becomes(C.w)
    /\ UNCHANGED << calls, handling >>

\* the step is the call name(key, value) of the facade, with outcome C
Do(name, key, value, C) ==
    /\ calls < MaxCalls
    /\ handling.pc = "idle"
    /\ op' = Op(name, key, value)
    /\ ret' = [raised |-> C.raised, value |-> C.ret]
    /\ Becomes(C.w)
    /\ calls' = calls + 1
    /\ UNCHANGED handling

ResetSettings == Do("resetSettings", "", None, resetSettings(Now))

SetMainLightingHue ==
    \E hue \in HueInputs, h \in RandomHues :
        Do("setMainLightingHue", "", Float(hue), setMainLightingHue(Now, hue, h))

GetMainLightingHue ==
    Do("getMainLightingHue", "", None, getMainLightingHue(Now))

SetMainLightingSaturation ==
    \E saturation \in SaturationInputs, h \in RandomHues :
        Do("setMainLightingSaturation", "", Float(saturation),
           setMainLightingSaturation(Now, saturation, h))

GetMainLightingSaturation ==
    Do("getMainLightingSaturation", "", None, getMainLightingSaturation(Now))

SetMainLightingBrightness ==
    \E brightness \in BrightnessInputs, h \in RandomHues :
        Do("setMainLightingBrightness", "", Float(brightness),
           setMainLightingBrightness(Now, brightness, h))

GetMainLightingBrightness ==
    Do("getMainLightingBrightness", "", None, getMainLightingBrightness(Now))

SetRingLightingHue ==
    \E hue \in HueInputs :
        Do("setRingLightingHue", "", Float(hue), setRingLightingHue(Now, hue))

GetRingLightingHue ==
    Do("getRingLightingHue", "", None, getRingLightingHue(Now))

SetRingLightingSaturation ==
    \E saturation \in SaturationInputs :
        Do("setRingLightingSaturation", "", Float(saturation),
           setRingLightingSaturation(Now, saturation))

GetRingLightingSaturation ==
    Do("getRingLightingSaturation", "", None, getRingLightingSaturation(Now))

SetRingLightingBrightness ==
    \E brightness \in BrightnessInputs :
        Do("setRingLightingBrightness", "", Float(brightness),
           setRingLightingBrightness(Now, brightness))

GetRingLightingBrightness ==
    Do("getRingLightingBrightness", "", None, getRingLightingBrightness(Now))

SetMainLightingUserBrightnessOf(inputs) ==
    \E brightness \in inputs, h \in RandomHues :
        Do("setMainLightingUserBrightness", "", Float(brightness),
           setMainLightingUserBrightness(Now, brightness, h))

SetMainLightingUserBrightness ==
    SetMainLightingUserBrightnessOf(UserBrightnessInputs)

GetMainLightingUserBrightness ==
    Do("getMainLightingUserBrightness", "", None,
       getMainLightingUserBrightness(Now))

SetMainLightingModeFlagOf(names) ==
    \E flag_name \in names, new_mode \in BOOLEAN,
       h1 \in RandomHues, h2 \in RandomHues :
        Do("setMainLightingModeFlag", flag_name, Bool(new_mode),
           setMainLightingModeFlag(Now, flag_name, new_mode, h1, h2))

SetMainLightingModeFlag == SetMainLightingModeFlagOf(ModeFlagNames)

GetMainLightingModeFlag ==
    \E flag_name \in ModeFlagNames :
        Do("getMainLightingModeFlag", flag_name, None,
           getMainLightingModeFlag(Now, flag_name))

SetMainLightingRuntimeFlagOf(names) ==
    \E flag_name \in names, new_mode \in BOOLEAN, h \in RandomHues :
        Do("setMainLightingRuntimeFlag", flag_name, Bool(new_mode),
           setMainLightingRuntimeFlag(Now, flag_name, new_mode, h))

SetMainLightingRuntimeFlag == SetMainLightingRuntimeFlagOf(RuntimeFlagNames)

GetMainLightingRuntimeFlag ==
    \E flag_name \in RuntimeFlagNames :
        Do("getMainLightingRuntimeFlag", flag_name, None,
           getMainLightingRuntimeFlag(Now, flag_name))

BlinkMainLightingOf(frequencies, counts) ==
    \E frequency \in frequencies, count \in counts :
        Do("blinkMainLighting", "", Float(count),
           blinkMainLighting(Now, frequency, count))

BlinkMainLighting == BlinkMainLightingOf(BlinkFrequencies, BlinkCounts)

\* The printer changes a property and the propertyChanged signal reaches the
\* handlers connected to it: the service's, then those of the controllers.
\* Whether a handler connected while the signal is being dispatched (that of
\* a controller the service's handler has just built) is also called is not
\* decided by this code: both outcomes are taken (late).
propertyChanged(W, key, value, late, random_hue) ==
    LET W0 == IF key \in DOMAIN W.printer
              THEN [W EXCEPT !.printer[key] = value]
              ELSE W
        W1 == service_onPrinterPropertyChanged(W0, key, value)
        W2 == IF W.main_controller # 0 \/ (late /\ W1.main_controller # 0)
              THEN main_onPrinterPropertyChanged(W1, key, value, random_hue)
              ELSE W1
    IN  IF W.ring_hardware # "none" \/ (late /\ W1.ring_hardware # "none")
        THEN ring_onPrinterPropertyChanged(W2, key, value)
        ELSE W2

PropertyChangedOf(printers, keys) ==
    \E key \in keys, h \in RandomHues :
        \E value \in PropertyValues(printers, key),
           late \in IF key = "state" /\ ~running THEN BOOLEAN ELSE {FALSE} :
            Event("propertyChanged", key,
                  IF key = "interaction_required" THEN Bool(value)
                  ELSE Str(value),
                  Return(propertyChanged(Now, key, value, late, h), None))

PropertyChanged ==
    PropertyChangedOf(Printers, {"state", "job_state", "interaction_required"})

\* time passes by dt and every zone's scheduler ticks
tickAll(W, dt) ==
    LET M == tick(Sched(W.main_queue, W.main_elapsed), dt)
        R == tick(Sched(W.ring_queue, W.ring_elapsed), dt)
    IN  [W EXCEPT !.main_queue = M.queue, !.main_elapsed = M.elapsed,
                  !.ring_queue = R.queue, !.ring_elapsed = R.elapsed,
                  !.party_timers =
                      [i \in DOMAIN @ |-> Max(@[i] - dt, 0)],
                  !.frames = emitFrame("main", M) \o emitFrame("ring", R)]

Tick ==
    /\ running
    /\ Event("tick", "", None, Return(tickAll(Now, TickDt), None))

\* time passes by dt and every zone's scheduler ticks; the frame production
\* of the zone failing throws
tickAllFailing(W, dt, failing) ==
    LET M == IF failing = "main"
             THEN tickFailing(Sched(W.main_queue, W.main_elapsed), dt)
             ELSE tick(Sched(W.main_queue, W.main_elapsed), dt)
        R == IF failing = "ring"
             THEN tickFailing(Sched(W.ring_queue, W.ring_elapsed), dt)
             ELSE tick(Sched(W.ring_queue, W.ring_elapsed), dt)
    IN  [W EXCEPT !.main_queue = M.queue, !.main_elapsed = M.elapsed,
                  !.ring_queue = R.queue, !.ring_elapsed = R.elapsed,
                  !.party_timers =
                      [i \in DOMAIN @ |-> Max(@[i] - dt, 0)],
                  !.frames =
                      (IF failing = "main" THEN << >>
                       ELSE emitFrame("main", M))
                      \o (IF failing = "ring" THEN << >>
                          ELSE emitFrame("ring", R))]

TickFails ==
    \E failing \in {"main", "ring"} :
        /\ running
        /\ Event("tick_failed", failing, None,
                 Return(tickAllFailing(Now, TickDt, failing), None))

\* the i-th pending timer fires: timer.Timer("PARTY!", 2.0, self.__update)
timerFired(W, i, random_hue) ==
    update([W EXCEPT !.party_timers =
               SubSeq(@, 1, i - 1) \o SubSeq(@, i + 1, Len(@))],
           random_hue)

TimerFired ==
    \E i \in DOMAIN party_timers, h \in RandomHues :
        /\ party_timers[i] = 0
        /\ Event("timer", "", None, Return(timerFired(Now, i, h), None))

\* the state LedService.__init__ leaves
InitOf(printers, boms, registries) ==
    \E p \in printers, bom \in boms, registry \in registries :
        LET W == LedService(p, bom, registry)
        IN  /\ printer = W.printer
            /\ machine_bom = W.machine_bom
            /\ prefs = W.prefs
            /\ saved = W.saved
            /\ running = W.running
            /\ main_controller = W.main_controller
            /\ button_ring_controller = W.button_ring_controller
            /\ ring_hardware = W.ring_hardware
            /\ starts = W.starts
            /\ left_booting = W.left_booting
            /\ props = W.props
            /\ main_color = W.main_color
            /\ runtime_flags = W.runtime_flags
            /\ m_printer_state = W.m_printer_state
            /\ m_job_state = W.m_job_state
            /\ main_queue = W.main_queue
            /\ main_elapsed = W.main_elapsed
            /\ party_timers = W.party_timers
            /\ r_printer_state = W.r_printer_state
            /\ r_job_state = W.r_job_state
            /\ r_interaction_required = W.r_interaction_required
            /\ customTheme = W.customTheme
            /\ ring_queue = W.ring_queue
            /\ ring_elapsed = W.ring_elapsed
            /\ op = Op("__init__", "", None)
            /\ ret = [raised |-> FALSE, value |-> None]
            /\ calls = 0
            /\ evals = W.evals
            /\ r_evals = W.r_evals
            /\ frames = W.frames
            /\ colorTheme = W.colorTheme
            /\ refs = W.refs
            /\ handling = NoHandling

Init == InitOf(Printers, MachineBOMs, Registries)

Next ==
    \/ ResetSettings
    \/ SetMainLightingHue
    \/ GetMainLightingHue
    \/ SetMainLightingSaturation
    \/ GetMainLightingSaturation
    \/ SetMainLightingBrightness
    \/ GetMainLightingBrightness
    \/ SetRingLightingHue
    \/ GetRingLightingHue
    \/ SetRingLightingSaturation
    \/ GetRingLightingSaturation
    \/ SetRingLightingBrightness
    \/ GetRingLightingBrightness
    \/ SetMainLightingUserBrightness
    \/ GetMainLightingUserBrightness
    \/ SetMainLightingModeFlag
    \/ GetMainLightingModeFlag
    \/ SetMainLightingRuntimeFlag
    \/ GetMainLightingRuntimeFlag
    \/ BlinkMainLighting
    \/ PropertyChanged
    \/ Tick
    \/ TimerFired

Spec == Init /\ [][Next]_vars

----------------------------------------------------------------------------
\* The service and its facade: every method of the facade, and the printer
\* states the service observes (job_state and interaction_required, which
\* the service does not listen to, keep their first values).

ServicePrinters ==
    [state : {"booting", "idle", "error"}, job_state : {"none"},
     interaction_required : {FALSE}]

InitService == InitOf(ServicePrinters, MachineBOMs, {<< >>})

StateChanged == PropertyChangedOf(ServicePrinters, {"state"})

NextService ==
    \/ ResetSettings
    \/ SetMainLightingHue
    \/ GetMainLightingHue
    \/ SetMainLightingSaturation
    \/ GetMainLightingSaturation
    \/ SetMainLightingBrightness
    \/ GetMainLightingBrightness
    \/ SetRingLightingHue
    \/ GetRingLightingHue
    \/ SetRingLightingSaturation
    \/ GetRingLightingSaturation
    \/ SetRingLightingBrightness
    \/ GetRingLightingBrightness
    \/ SetMainLightingUserBrightness
    \/ GetMainLightingUserBrightness
    \/ SetMainLightingModeFlag
    \/ GetMainLightingModeFlag
    \/ SetMainLightingRuntimeFlag
    \/ GetMainLightingRuntimeFlag
    \/ BlinkMainLighting
    \/ StateChanged
    \/ Tick
    \/ TimerFired

SpecService == InitService /\ [][NextService]_vars

----------------------------------------------------------------------------
\* The main zone: the operations that reach the priority policy of the
\* MainLightingController and its scheduler.  The ring zone shares no state
\* with it.

MainPrinters ==
    [state : PrinterStates, job_state : JobStates,
     interaction_required : {FALSE}]

InitMain == InitOf(MainPrinters, {"9066"}, {<< >>})

MainPropertyChanged == PropertyChangedOf(MainPrinters, {"state", "job_state"})

SetModeFlag ==
    SetMainLightingModeFlagOf({MODE_FLAG_PARTY, MODE_FLAG_ON_WHEN_PRINTING})

SetRuntimeFlag == SetMainLightingRuntimeFlagOf(ALL_RUNTIME_FLAGS)

NextMain ==
    \/ SetMainLightingHue
    \/ SetMainLightingBrightness
    \/ SetMainLightingUserBrightness
    \/ SetModeFlag
    \/ SetRuntimeFlag
    \/ BlinkMainLighting
    \/ MainPropertyChanged
    \/ Tick
    \/ TimerFired

SpecMain == InitMain /\ [][NextMain]_vars

----------------------------------------------------------------------------
\* The ring zone: the operations that reach the ButtonRingController and
\* its scheduler.

RingPrinters ==
    [state : {"booting", "idle", "printing", "error"},
     job_state : JobStates, interaction_required : BOOLEAN]

InitRing == InitOf(RingPrinters, MachineBOMs, {<< >>})

RingPropertyChanged ==
    PropertyChangedOf(RingPrinters,
                      {"state", "job_state", "interaction_required"})

NextRing ==
    \/ SetRingLightingHue
    \/ SetRingLightingSaturation
    \/ SetRingLightingBrightness
    \/ RingPropertyChanged
    \/ Tick

SpecRing == InitRing /\ [][NextRing]_vars

----------------------------------------------------------------------------
\* The stored settings: the operations on the mode flags, the runtime
\* flags and the user brightness, from a fresh registry and from one a user
\* has written, and the service process being started again on the registry
\* file.

SettingsPrinters ==
    [state : {"booting", "idle"}, job_state : {"none"},
     interaction_required : {FALSE}]

InitSettings == InitOf(SettingsPrinters, {"9066"}, Registries)

\* brightness requests below, inside and above the range 0..100
WideBrightnessInputs == {-10, 0, 40, 100, 150}

SetUserBrightness == SetMainLightingUserBrightnessOf(WideBrightnessInputs)

SettingsStateChanged == PropertyChangedOf(SettingsPrinters, {"state"})

\* the process ends and the service is constructed again: it finds in the
\* registry file what was forced to storage, or all that was written if the
\* registry has saved itself in between
restart(W, registry) == LedService(W.printer, W.machine_bom, registry)

Restart ==
    \E registry \in {saved, prefs} :
        /\ op' = Op("restart", "", None)
        /\ ret' = [raised |-> FALSE, value |-> None]
        /\ Becomes(restart(Now, registry))
        /\ UNCHANGED << calls, handling >>

NextSettings ==
    \/ ResetSettings
    \/ SetUserBrightness
    \/ GetMainLightingUserBrightness
    \/ SetMainLightingModeFlag
    \/ GetMainLightingModeFlag
    \/ SetMainLightingRuntimeFlag
    \/ GetMainLightingRuntimeFlag
    \/ SettingsStateChanged
    \/ Restart

SpecSettings == InitSettings /\ [][NextSettings]_vars

----------------------------------------------------------------------------
\* The non-volatile properties of the main controller: the mode flags and
\* the user brightness changed by the controller's setters and by a write
\* to the property itself, which the service exposes with its container.

\* a write to property name of the service's container
writeProperty(W, name, value, random_hue) ==
    IF W.main_controller = 0 \/ name \notin DOMAIN W.props
    THEN Raise(W, "NotFound")
    ELSE Return(setPropertyValue(W, name, value, random_hue), None)

WriteProperty ==
    \E h \in RandomHues :
        \/ \E name \in ALL_MODE_FLAGS, value \in BOOLEAN :
              Do("writeProperty", name, Bool(value),
                 writeProperty(Now, name, value, h))
        \/ \E value \in WideBrightnessInputs :
              Do("writeProperty", "user_brightness", Float(value),
                 writeProperty(Now, "user_brightness", value, h))

SetKnownModeFlag == SetMainLightingModeFlagOf(ALL_MODE_FLAGS)

NextProperties ==
    \/ SetUserBrightness
    \/ SetKnownModeFlag
    \/ WriteProperty
    \/ SettingsStateChanged

SpecProperties == InitSettings /\ [][NextProperties]_vars

----------------------------------------------------------------------------
\* The effect queue of the main zone over time: party mode, blink requests
\* and state changes of a printer that has left "booting", with the
\* periodic tick and the party timers.  The tick is periodic and a started
\* timer fires, so both are fair.

QueuePrinters ==
    [state : {"idle", "error"}, job_state : {"none"},
     interaction_required : {FALSE}]

InitQueue == InitOf(QueuePrinters, {"9066"}, {<< >>})

QueueStateChanged == PropertyChangedOf(QueuePrinters, {"state"})

SetPartyFlag == SetMainLightingModeFlagOf({MODE_FLAG_PARTY})

NextQueue ==
    \/ SetPartyFlag
    \/ BlinkMainLighting
    \/ QueueStateChanged
    \/ Tick
    \/ TimerFired

SpecQueue ==
    InitQueue /\ [][NextQueue]_vars /\ WF_vars(Tick) /\ WF_vars(TimerFired)

----------------------------------------------------------------------------
\* The frames of the zones over time: blink requests and state changes of a
\* printer that has left "booting", with ticks whose frame production
\* succeeds and ticks whose frame production throws.

InitFrames == InitOf(QueuePrinters, {"9066"}, {<< >>})

NextFrames ==
    \/ BlinkMainLighting
    \/ QueueStateChanged
    \/ Tick
    \/ TickFails

SpecFrames == InitFrames /\ [][NextFrames]_vars

----------------------------------------------------------------------------
\* The effects over time: every kind of effect the controllers enqueue,
\* played by the scheduler with ticks a quarter of a second apart.

\* blink requests at 0.5, 1.0 and 2.0 Hz
FineBlinkFrequencies == {5, 10, 20}

FineBlinkCounts == {1, 3}

BlinkExamples == BlinkMainLightingOf(FineBlinkFrequencies, FineBlinkCounts)

SetMessageFlag == SetMainLightingRuntimeFlagOf({RUNTIME_FLAG_MESSAGE})

FineTick ==
    /\ running
    /\ Event("tick", "", None, Return(tickAll(Now, FineDt), None))

InitEffects == InitOf(QueuePrinters, {"9066"}, {<< >>})

NextEffects ==
    \/ BlinkExamples
    \/ SetMessageFlag
    \/ QueueStateChanged
    \/ FineTick

SpecEffects == InitEffects /\ [][NextEffects]_vars

----------------------------------------------------------------------------
\* Party mode at the resolution of the frames: the party flag and state
\* changes, with a tick every FineDt and every party timer firing at the
\* time it is set for, before the next tick.

PromptTick ==
    /\ \A i \in DOMAIN party_timers : party_timers[i] > 0
    /\ FineTick

NextParty ==
    \/ SetPartyFlag
    \/ QueueStateChanged
    \/ PromptTick
    \/ TimerFired

SpecParty == InitQueue /\ [][NextParty]_vars

----------------------------------------------------------------------------
\* The startup of the zones: the service from its construction on, on a
\* fresh and on a written registry, with the notifications of the three
\* printer properties arriving while the startup fades play.

StartupPrinters ==
    [state : {"booting", "idle", "error"}, job_state : {"none", "paused"},
     interaction_required : BOOLEAN]

InitStartup == InitOf(StartupPrinters, MachineBOMs, Registries)

StartupPropertyChanged ==
    PropertyChangedOf(StartupPrinters,
                      {"state", "job_state", "interaction_required"})

NextStartup ==
    \/ StartupPropertyChanged
    \/ PromptTick
    \/ TimerFired

SpecStartup == InitStartup /\ [][NextStartup]_vars

----------------------------------------------------------------------------
\* The service left alone after its construction, on a fresh registry: no
\* notification and no call arrives, the schedulers tick.  The tick is
\* periodic, so it is fair.

InitAlone == InitOf(StartupPrinters, MachineBOMs, {<< >>})

NextAlone == PromptTick

SpecAlone == InitAlone /\ [][NextAlone]_vars /\ WF_vars(PromptTick)

----------------------------------------------------------------------------
\* The controllers following the printer: notifications of the three
\* properties in any order and with any values, the message flag set and
\* cleared in between, and the ticks.

ReconcilePrinters ==
    [state : {"booting", "idle", "printing", "error"},
     job_state : JobStates, interaction_required : BOOLEAN]

InitReconcile == InitOf(ReconcilePrinters, {"9066"}, {<< >>})

ReconcilePropertyChanged ==
    PropertyChangedOf(ReconcilePrinters,
                      {"state", "job_state", "interaction_required"})

NextReconcile ==
    \/ ReconcilePropertyChanged
    \/ SetMessageFlag
    \/ Tick

SpecReconcile == InitReconcile /\ [][NextReconcile]_vars

----------------------------------------------------------------------------
\* The notifications each listener reacts to: those of the three properties
\* and those of a property of the printer that nothing here monitors, on a
\* fresh and on a written registry, with the ticks and the party timers.

\* a property of the printer that neither the service nor a controller reads
OTHER_PROPERTY == "uptime"

OtherPropertyChanged ==
    \E h \in RandomHues :
        Event("propertyChanged", OTHER_PROPERTY, Str("1"),
              Return(propertyChanged(Now, OTHER_PROPERTY, "1", FALSE, h),
                     None))

NextMonitored ==
    \/ StartupPropertyChanged
    \/ OtherPropertyChanged
    \/ Tick
    \/ TimerFired

SpecMonitored == InitStartup /\ [][NextMonitored]_vars

----------------------------------------------------------------------------
\* The colours of the two zones: the hue, saturation and brightness setters
\* and getters of the facade, with values below, inside and above the
\* documented ranges, on a printer that is booting, idle or in error.

ColourInputs == {-30, 50, 400}

ColourPrinters ==
    [state : {"booting", "idle", "error"}, job_state : {"none"},
     interaction_required : {FALSE}]

InitColour == InitOf(ColourPrinters, MachineBOMs, {<< >>})

\* a call of one of the six colour setters of the facade
SetColourChannel ==
    \E x \in ColourInputs, h \in RandomHues :
        \/ Do("setMainLightingHue", "", Float(x),
              setMainLightingHue(Now, x, h))
        \/ Do("setMainLightingSaturation", "", Float(x),
              setMainLightingSaturation(Now, x, h))
        \/ Do("setMainLightingBrightness", "", Float(x),
              setMainLightingBrightness(Now, x, h))
        \/ Do("setRingLightingHue", "", Float(x), setRingLightingHue(Now, x))
        \/ Do("setRingLightingSaturation", "", Float(x),
              setRingLightingSaturation(Now, x))
        \/ Do("setRingLightingBrightness", "", Float(x),
              setRingLightingBrightness(Now, x))

ColourStateChanged == PropertyChangedOf(ColourPrinters, {"state"})

NextColour ==
    \/ SetColourChannel
    \/ GetMainLightingHue
    \/ GetMainLightingSaturation
    \/ GetMainLightingBrightness
    \/ GetRingLightingHue
    \/ GetRingLightingSaturation
    \/ GetRingLightingBrightness
    \/ SetMessageFlag
    \/ ColourStateChanged

SpecColour == InitColour /\ [][NextColour]_vars

----------------------------------------------------------------------------
\* The ring facade on the machine types: the UM3 and the UM3 Extended, which
\* have a button ring, and two machine types that have none, with the colour
\* setters, the ring getters, state changes and ticks.

FacadeBOMs == {"9066", "9511", "9051", "213482"}

InitMachines == InitOf(ColourPrinters, FacadeBOMs, {<< >>})

NextMachines ==
    \/ SetColourChannel
    \/ GetRingLightingHue
    \/ GetRingLightingSaturation
    \/ GetRingLightingBrightness
    \/ ColourStateChanged
    \/ Tick

SpecMachines == InitMachines /\ [][NextMachines]_vars

----------------------------------------------------------------------------
\* The handlers of a notification statement by statement.  A notification is
\* delivered on the thread of the signal: the handler of the main controller
\* stores the value and then re-evaluates, and after it the handler of the
\* ring does the same.  Neither handler nor __update takes a lock, so the
\* party timer's callback and the periodic tick, which run on their own
\* threads, can run between the two statements of a handler.

\* the assignment of a handler of the main controller (lines 174, 177)
main_storeProperty(W, property_key, value) ==
    IF property_key = "state" THEN [W EXCEPT !.m_printer_state = value]
    ELSE IF property_key = "job_state" THEN [W EXCEPT !.m_job_state = value]
    ELSE W

\* the assignment of a handler of the ring controller (lines 41, 44, 47)
ring_storeProperty(W, property_key, value) ==
    IF property_key = "state" THEN [W EXCEPT !.r_printer_state = value]
    ELSE IF property_key = "job_state" THEN [W EXCEPT !.r_job_state = value]
    ELSE IF property_key = "interaction_required"
    THEN [W EXCEPT !.r_interaction_required = value]
    ELSE W

\* one statement of the handling of the notification key = value, which
\* leaves the handling at pc
Statement(name, key, value, W, pc) ==
    /\ op' = Op(name, key, Str(value))
    /\ ret' = [raised |-> FALSE, value |-> None]
    /\ Becomes(W)
    /\ handling' = IF pc = "idle" THEN NoHandling
                   ELSE [pc |-> pc, key |-> key, value |-> Str(value)]
    /\ UNCHANGED calls

RacePrinters ==
    [state : {"idle", "error"}, job_state : {"none"},
     interaction_required : {FALSE}]

InitRace == InitOf(RacePrinters, {"9066"}, {<< >>})

\* the printer changes its state; the service's handler runs and the main
\* controller's handler stores the value
MainStore ==
    \E value \in PropertyValues(RacePrinters, "state") :
        /\ handling.pc = "idle"
        /\ main_controller # 0
        /\ Statement("store", "state", value,
                     main_storeProperty(
                         service_onPrinterPropertyChanged(
                             [Now EXCEPT !.printer["state"] = value],
                             "state", value),
                         "state", value),
                     "main_stored")

\* the main controller's handler re-evaluates
MainUpdate ==
    \E h \in RandomHues :
        /\ handling.pc = "main_stored"
        /\ Statement("update", handling.key, handling.value.text,
                     update(Now, h), "main_updated")

\* the ring controller's handler stores the value
RingStore ==
    /\ handling.pc = "main_updated"
    /\ Statement("store", handling.key, handling.value.text,
                 ring_storeProperty(Now, handling.key, handling.value.text),
                 "ring_stored")

\* the ring controller's handler re-evaluates
RingUpdate ==
    /\ handling.pc = "ring_stored"
    /\ Statement("update", handling.key, handling.value.text,
                 ring_update(Now), "idle")

NextRace ==
    \/ SetPartyFlag
    \/ MainStore
    \/ MainUpdate
    \/ RingStore
    \/ RingUpdate
    \/ Tick
    \/ TimerFired

SpecRace == InitRace /\ [][NextRace]_vars

----------------------------------------------------------------------------
\* The priority policy of the main zone

\* the state colour the documented order selects for a printer and job state
StateColour(printer_state, job_state) ==
    IF printer_state = "printing" /\ job_state \in {"wait_cleanup", "none"}
    THEN PURPLE
    ELSE IF printer_state = "printing" THEN CYAN
    ELSE IF printer_state = "maintenance" THEN YELLOW
    ELSE IF printer_state = "error" THEN RED
    ELSE GREEN

\* a runtime flag is set in the record e of a re-evaluation
FlagSet(e, flag_name) ==
    flag_name \in DOMAIN e.runtime_flags /\ e.runtime_flags[flag_name]

AnyRuntimeFlag(e) ==
    FlagSet(e, "authenticating") \/ FlagSet(e, "message")

\* the last effect a step has enqueued is at the end of the main queue
LastEnqueued ==
    \A i \in DOMAIN evals :
        (i = Len(evals) /\ evals[i].effect # NoEffect)
            => /\ main_queue # << >>
               /\ main_queue[Len(main_queue)] = evals[i].effect

\* C1: with party and both runtime flags off, every re-evaluation of the main
\* policy enqueues exactly the Static effect of the first matching rule:
\* printing with job wait_cleanup or none -> Purple, printing -> Cyan,
\* maintenance -> Yellow, error -> Red, anything else -> Green.
C1_StatePolicy ==
    /\ \A i \in DOMAIN evals :
          (~evals[i].party /\ ~AnyRuntimeFlag(evals[i]))
              => /\ evals[i].effect =
                       StaticEffect(StateColour(evals[i].printer_state,
                                                evals[i].job_state))
                 /\ ~evals[i].timer
    /\ LastEnqueued

\* C1 witness: a re-evaluation while printing with job state "none", no flag
\* set, has enqueued Static Purple
C1_Witness ==
    \E i \in DOMAIN evals :
        /\ ~evals[i].party /\ ~AnyRuntimeFlag(evals[i])
        /\ evals[i].printer_state = "printing"
        /\ evals[i].job_state = "none"
        /\ evals[i].effect = StaticEffect(PURPLE)

\* C2 as stated: whenever printer_state is "error", a re-evaluation results
\* in Static Red, whatever the mode flags, runtime flags and job state are.
C2_Original ==
    \A i \in DOMAIN evals :
        evals[i].printer_state = "error"
            => evals[i].effect = StaticEffect(RED)

\* C2 amended: whenever printer_state is "error", the party flag is off and
\* no runtime flag is set, a re-evaluation results in Static Red, whatever
\* the job state and the other mode flags are.
C2_ErrorRed ==
    \A i \in DOMAIN evals :
        (evals[i].printer_state = "error" /\ ~evals[i].party
         /\ ~AnyRuntimeFlag(evals[i]))
            => /\ evals[i].effect = StaticEffect(RED)
               /\ main_queue[Len(main_queue)] = StaticEffect(RED)

\* C2 witness: Static Red enqueued in state error with a job waiting for
\* cleanup and the mode flag on_when_printing set
C2_Witness ==
    \E i \in DOMAIN evals :
        /\ evals[i].printer_state = "error"
        /\ evals[i].job_state = "wait_cleanup"
        /\ evals[i].effect = StaticEffect(RED)
        /\ props[MODE_FLAG_ON_WHEN_PRINTING]

\* C3: with party off, whenever the runtime flag authenticating or message is
\* set, every re-evaluation enqueues a Glow between the current colour (the
\* main colour with its value scaled by user_brightness / 100) and the dark
\* current colour (value times 0.3) at 0.1 Hz, in every printer and job state.
C3_RuntimeGlow ==
    \A i \in DOMAIN evals :
        (~evals[i].party /\ AnyRuntimeFlag(evals[i]))
            => LET c == evals[i].main_color
                   v == (c.value * evals[i].user_brightness) \div 100
               IN  /\ evals[i].effect =
                         GlowEffect(HsvColor(c.hue, c.saturation, v),
                                    HsvColor(c.hue, c.saturation,
                                             (v * 3) \div 10), 1)
                   /\ main_queue[Len(main_queue)].kind = "Glow"

\* C3 witness: a Glow enqueued in printer state error with the message flag
\* set and a colour the user has changed
C3_Witness ==
    \E i \in DOMAIN evals :
        /\ FlagSet(evals[i], "message")
        /\ evals[i].printer_state = "error"
        /\ evals[i].main_color # WHITE
        /\ evals[i].effect.kind = "Glow"

\* C4: with the party flag set, a re-evaluation enqueues a Fade (saturation
\* 100, value user_brightness, 2.0 s) and starts one 2.0 s timer exactly when
\* no effect is queued (at most one entry in the queue); otherwise it enqueues
\* nothing and starts no timer.  It never enqueues a Static or a Glow,
\* whatever the runtime flags and the printer state are.
C4_PartyFade ==
    /\ \A i \in DOMAIN evals :
          evals[i].party
              => IF evals[i].queue_len > 1
                 THEN evals[i].effect = NoEffect /\ ~evals[i].timer
                 ELSE /\ evals[i].effect.kind = "Fade"
                      /\ evals[i].effect.color.hue \in 0..360
                      /\ evals[i].effect.color.saturation = 100
                      /\ evals[i].effect.color.value =
                             evals[i].user_brightness
                      /\ evals[i].effect.duration = 8
                      /\ evals[i].timer
    /\ (\E i \in DOMAIN evals : evals[i].timer)
          => /\ party_timers # << >>
             /\ party_timers[Len(party_timers)] = 8

\* C4 witness: in one step a re-evaluation with nothing queued has enqueued
\* the Fade and started the timer, and a second one, with the Fade queued, has
\* done nothing, in printer state error with a runtime flag set
C4_Witness ==
    /\ Len(evals) = 2
    /\ evals[1].party /\ evals[1].queue_len = 1
    /\ evals[1].effect.kind = "Fade" /\ evals[1].timer
    /\ evals[2].party /\ evals[2].queue_len = 2
    /\ evals[2].effect = NoEffect /\ ~evals[2].timer
    /\ evals[1].printer_state = "error"
    /\ AnyRuntimeFlag(evals[1])

----------------------------------------------------------------------------
\* The priority policy of the ring zone

\* the effect the documented order of the ring selects
RingEffect(printer_state, job_state, interaction_required, theme) ==
    IF printer_state = "error" THEN GlowEffect(BLACK, RED, 5)
    ELSE IF interaction_required THEN GlowEffect(BLACK, YELLOW, 5)
    ELSE IF printer_state = "printing" /\ job_state = "wait_cleanup"
    THEN GlowEffect(BLACK, PURPLE, 5)
    ELSE IF printer_state = "printing" /\ job_state = "paused"
    THEN GlowEffect(BLACK, CYAN, 5)
    ELSE StaticEffect(theme)

----------------------------------------------------------------------------
\* End to end: a notification and the next tick

\* the main controller has just handled a job_state notification with value
\* "wait_cleanup" while printing, with party off and no runtime flag set
CleanupNotified ==
    /\ op.name = "propertyChanged" /\ op.key = "job_state"
    /\ main_controller # 0
    /\ m_job_state = "wait_cleanup" /\ m_printer_state = "printing"
    /\ ~props[MODE_FLAG_PARTY]
    /\ \A f \in DOMAIN runtime_flags : ~runtime_flags[f]

NoTransientQueued ==
    \A i \in DOMAIN main_queue : ~isTransient(main_queue[i])

\* C6 as stated: after such a notification the active effect of the main
\* zone after the next tick is Static Purple.
C6_Original ==
    [][(CleanupNotified /\ op'.name = "tick")
          => Head(main_queue') = StaticEffect(PURPLE)]_vars

\* C6 amended: after such a notification, handled while no transient effect
\* (the startup Fade, a Blink, a party Fade) is playing or queued in the main
\* zone, the active effect after the next tick is Static Purple.
C6_PurpleAfterTick ==
    [][(CleanupNotified /\ NoTransientQueued /\ op'.name = "tick")
          => /\ main_queue = << StaticEffect(PURPLE) >>
             /\ main_queue' = << StaticEffect(PURPLE) >>]_vars

\* C6 witness: the notification has been handled with only a steady-state
\* effect in the queue, after the startup fade has played
C6_Witness ==
    /\ CleanupNotified /\ NoTransientQueued
    /\ Head(main_queue) = StaticEffect(PURPLE)

----------------------------------------------------------------------------
\* The facade before the controllers exist

MainGetters ==
    {"getMainLightingHue", "getMainLightingSaturation",
     "getMainLightingBrightness", "getMainLightingUserBrightness"}

RingGetters ==
    {"getRingLightingHue", "getRingLightingSaturation",
     "getRingLightingBrightness"}

FlagGetters == {"getMainLightingModeFlag", "getMainLightingRuntimeFlag"}

MainSetters ==
    {"setMainLightingHue", "setMainLightingSaturation",
     "setMainLightingBrightness", "setMainLightingUserBrightness",
     "setMainLightingModeFlag", "setMainLightingRuntimeFlag",
     "blinkMainLighting", "resetSettings"}

RingSetters ==
    {"setRingLightingHue", "setRingLightingSaturation",
     "setRingLightingBrightness"}

\* C7: while the owning controller has not been constructed, every getter of
\* the facade returns its zero value and raises no error: 0.0 for hue,
\* saturation, brightness and user brightness of main and ring lighting,
\* false for the mode and runtime flag getters, for every flag name.
C7_GettersZero ==
    /\ (main_controller = 0 /\ op.name \in MainGetters)
          => (~ret.raised /\ ret.value = Float(0))
    /\ (button_ring_controller = 0 /\ op.name \in RingGetters)
          => (~ret.raised /\ ret.value = Float(0))
    /\ (main_controller = 0 /\ op.name \in FlagGetters)
          => (~ret.raised /\ ret.value = Bool(FALSE))

\* C7 witness: the mode flag getter has been called with an unknown flag name
\* while no controller exists
C7_Witness ==
    /\ main_controller = 0 /\ button_ring_controller = 0
    /\ op.name = "getMainLightingModeFlag" /\ op.key = "disco"
    /\ ret.value = Bool(FALSE)

\* the state of the service, of the controllers and of the registry
world ==
    << printer, machine_bom, prefs, saved, running, main_controller,
       button_ring_controller, ring_hardware, starts, left_booting, props,
       main_color, runtime_flags, m_printer_state, m_job_state, main_queue,
       main_elapsed, party_timers, r_printer_state, r_job_state,
       r_interaction_required, customTheme, ring_queue, ring_elapsed >>

\* the step is a call that returned without error and changed nothing
SilentNoOp ==
    /\ ~ret'.raised /\ ret'.value = None
    /\ UNCHANGED world
    /\ evals' = << >> /\ r_evals' = << >>

\* the step has built the main controller from the registry alone
FreshlyBuilt ==
    LET keys == ALL_MODE_FLAGS \cup {"user_brightness"}
        stored == [k \in keys |->
                      IF k \in DOMAIN prefs THEN prefs[k]
                      ELSE IF k = "user_brightness" THEN 100
                      ELSE k = "glow_when_print_is_finished"]
    IN  /\ props' = stored
        /\ main_color' = WHITE
        /\ runtime_flags' = << >>
        /\ party_timers' = << >>
        /\ customTheme' = ULTIMAKER
        /\ Head(main_queue') =
               FadeEffect(HsvColor(0, 0, stored["user_brightness"]), 24)
        /\ \A i \in DOMAIN main_queue' : main_queue'[i].kind # "Blink"

\* C8: while the owning controller has not been constructed, every setter and
\* command of the facade returns without error and leaves all state
\* unchanged: no colour, flag or stored setting is modified and no effect is
\* enqueued; and the controller that is built later starts from the registry
\* and its defaults, with nothing of those calls applied.
C8_SettersNoOp ==
    [][/\ (main_controller = 0 /\ op'.name \in MainSetters) => SilentNoOp
       /\ (button_ring_controller = 0 /\ op'.name \in RingSetters)
             => SilentNoOp
       /\ (main_controller = 0 /\ main_controller' # 0) => FreshlyBuilt
      ]_vars

\* C8 witness: the party flag has been set through the facade while no
\* controller exists, and the registry is still empty
C8_Witness ==
    /\ main_controller = 0
    /\ op.name = "setMainLightingModeFlag" /\ op.key = "party"
    /\ op.value = Bool(TRUE)
    /\ prefs = << >> /\ party_timers = << >>

----------------------------------------------------------------------------
\* The lifecycle of the controllers

\* C9: as long as every printer state the service has observed is "booting"
\* no controller exists, and the first observation of another state (in the
\* constructor or in a notification) constructs the controllers in that step.
C9_DeferredConstruction ==
    /\ left_booting <=> main_controller # 0
    /\ left_booting <=> ring_hardware # "none"
    /\ left_booting <=> running
    /\ ~left_booting
          => /\ button_ring_controller = 0
             /\ main_queue = << >> /\ ring_queue = << >>
             /\ props = << >>
    /\ (left_booting /\ machine_bom \in {"9066", "9511"})
          => button_ring_controller # 0

\* C9 witness: the controllers have been constructed by a notification
C9_Witness ==
    /\ op.name = "propertyChanged" /\ op.key = "state"
    /\ printer.state = "error"
    /\ main_controller # 0 /\ main_queue # << >>
    /\ Len(evals) = 0

\* C10: the body of __start runs at most once, and once the main controller
\* exists the facade never refers to another controller or to none.
C10_ConstructedOnce ==
    [][/\ starts' <= 1
       /\ main_controller # 0 => main_controller' = main_controller
       /\ button_ring_controller # 0
             => button_ring_controller' = button_ring_controller
       /\ main_controller' \in {0, 1}
      ]_vars

\* C10 witness: the printer is back in "booting" and the controller built
\* before is still the one the facade refers to
C10_Witness ==
    /\ op.name = "propertyChanged" /\ printer.state = "booting"
    /\ main_controller = 1 /\ starts = 1 /\ running

----------------------------------------------------------------------------
\* The stored settings

Clamped(x) == IF x < 0 THEN 0 ELSE IF x > 100 THEN 100 ELSE x

\* C11: setUserBrightness stores min(max(x, 0), 100) for every input x, so
\* the user brightness of the controller, and what the facade's getter
\* returns, is never outside 0..100.
C11_ClampUserBrightness ==
    /\ (op.name = "setMainLightingUserBrightness" /\ main_controller # 0)
          => /\ props["user_brightness"] = Clamped(op.value.number)
             /\ prefs["user_brightness"] = Clamped(op.value.number)
    /\ main_controller # 0 => props["user_brightness"] \in 0..100
    /\ op.name = "getMainLightingUserBrightness"
          => /\ ~ret.raised /\ ret.value.kind = "float"
             /\ ret.value.number \in 0..100

\* C11 witness: a request of 150 has been stored as 100
C11_Witness ==
    /\ op.name = "setMainLightingUserBrightness" /\ op.value = Float(150)
    /\ main_controller # 0
    /\ props["user_brightness"] = 100

\* the documented defaults of the stored settings
DocumentedDefaults ==
    [k \in {"glow_when_print_is_finished", "on_when_printing", "party",
            "user_brightness"} |->
        IF k = "user_brightness" THEN 100
        ELSE k = "glow_when_print_is_finished"]

\* the registry r holds exactly the documented defaults
HoldsDefaults(r) ==
    \A k \in DOMAIN DocumentedDefaults :
        k \in DOMAIN r /\ r[k] = DocumentedDefaults[k]

\* C12: resetToDefaultValues writes the documented defaults and forces them
\* to storage before it returns, whatever the settings were; a service that
\* is started on the stored registry right after finds exactly the defaults.
C12_ResetPersistsDefaults ==
    [][/\ (main_controller # 0 /\ op'.name = "resetSettings")
             => /\ ~ret'.raised
                /\ HoldsDefaults(saved')
                /\ saved' = prefs'
       /\ (main_controller # 0 /\ op.name = "resetSettings"
           /\ op'.name = "restart")
             => /\ HoldsDefaults(prefs')
                /\ main_controller' # 0 => props' = DocumentedDefaults
      ]_vars

\* C12 witness: the reset has acted on settings that were not the defaults:
\* the running controller still has the party flag and brightness 50
C12_Witness ==
    /\ op.name = "resetSettings" /\ main_controller # 0
    /\ props["party"] /\ props["user_brightness"] = 50
    /\ HoldsDefaults(saved)

\* C13 as stated: immediately after resetToDefaultValues returns, getModeFlag
\* returns the default of every mode flag and getUserBrightness returns 100.
C13_Original ==
    (op.name = "resetSettings" /\ main_controller # 0)
        => /\ \A f \in {"glow_when_print_is_finished", "on_when_printing",
                         "party"} :
                 getModeFlag(Now, f) = DocumentedDefaults[f]
           /\ getUserBrightness(Now) = 100

\* a name outside the closed set of the setter the step has called
UnknownFlag(o) ==
    \/ /\ o.name = "setMainLightingModeFlag"
       /\ o.key \notin {"glow_when_print_is_finished", "on_when_printing",
                         "party"}
    \/ /\ o.name = "setMainLightingRuntimeFlag"
       /\ o.key \notin {"authenticating", "message"}

\* C14: setModeFlag and setRuntimeFlag of the controller, called with a flag
\* name outside their closed sets, fail with an error and change nothing: no
\* flag, no stored setting, no re-evaluation, no effect enqueued.
C14_UnknownFlagFails ==
    [][(main_controller # 0 /\ UnknownFlag(op'))
          => /\ ret'.raised
             /\ UNCHANGED world
             /\ evals' = << >> /\ r_evals' = << >>
      ]_vars

\* C14 witness: setRuntimeFlag has been called with an unknown name on a
\* controller whose party flag is set
C14_Witness ==
    /\ op.name = "setMainLightingRuntimeFlag" /\ op.key = "disco"
    /\ main_controller # 0 /\ ret.raised
    /\ props["party"]

\* C15 as stated: in every lifecycle state of the service a call of
\* setMainLightingModeFlag or setMainLightingRuntimeFlag with an unknown
\* flag name is rejected to the caller.
C15_Original == UnknownFlag(op) => ret.raised

\* C15 amended: once the main controller has been constructed such a call
\* is rejected to the caller with the assertion's error; before that it
\* returns silently, as every setter of the facade does.
C15_RejectedOnceConstructed ==
    UnknownFlag(op)
        => IF main_controller # 0
           THEN ret.raised /\ ret.value = Str("AssertionError")
           ELSE ~ret.raised /\ ret.value = None

\* C15 witness: setMainLightingModeFlag("disco", true) has been rejected
C15_Witness ==
    /\ op.name = "setMainLightingModeFlag" /\ op.key = "disco"
    /\ op.value = Bool(TRUE)
    /\ main_controller # 0
    /\ ret.raised /\ ret.value = Str("AssertionError")

----------------------------------------------------------------------------
\* The effect queue

isSteady(e) == ~isTransient(e)

Steady(q) == SelectSeq(q, isSteady)

Transients(q) == SelectSeq(q, isTransient)

\* the steady-state effect that the last step has enqueued last, if any
LastSteady(es) ==
    LET I == { i \in DOMAIN es : es[i].effect # NoEffect
                                  /\ isSteady(es[i].effect) }
    IN  IF I = {} THEN << >>
        ELSE << es[CHOOSE i \in I : \A j \in I : j <= i].effect >>

\* C16: a zone's queue never holds more than one non-completing (Static or
\* Glow) effect, and a steady-state effect that is enqueued replaces the one
\* that was queued: it is then the only one.
C16_OneSteadyState ==
    /\ Len(Steady(main_queue)) <= 1
    /\ Len(Steady(ring_queue)) <= 1
    /\ LastSteady(evals) # << >> => Steady(main_queue) = LastSteady(evals)
    /\ LastSteady(r_evals) # << >> => Steady(ring_queue) = LastSteady(r_evals)

\* C16 witness: a steady-state effect has been enqueued on a queue of two
\* entries, one of them steady-state, and the queue still has two entries
C16_Witness ==
    /\ Len(evals) = 1 /\ evals[1].queue_len = 2
    /\ LastSteady(evals) # << >>
    /\ Len(main_queue) = 2 /\ Len(Steady(main_queue)) = 1
    /\ Len(party_timers) = 0

\* the last step has enqueued a steady-state effect on the main zone
SteadyEnqueued == LastSteady(evals) # << >>

\* C17: enqueueing a steady-state effect keeps every transient (Fade, Blink)
\* that is playing or queued, in order and ahead of it, and does not restart
\* the one that is playing; a tick removes a playing transient only when it
\* is complete; and the steady-state effect becomes the active one once the
\* transients have completed.
C17_TransientsPlayOut ==
    /\ [][/\ SteadyEnqueued'
             => /\ main_queue' = Transients(main_queue) \o LastSteady(evals')
                /\ Transients(main_queue) # << >>
                      => (main_elapsed' =
                            IF isTransient(Head(main_queue))
                            THEN main_elapsed ELSE 0)
          /\ (op'.name = "tick" /\ main_queue # << >>
              /\ isTransient(Head(main_queue)))
             => \/ /\ main_queue' = main_queue
                   /\ main_elapsed' >= main_elapsed
                \/ /\ main_queue' = Tail(main_queue)
                   /\ isComplete(Head(main_queue), main_elapsed + TickDt)
         ]_vars
    /\ (SteadyEnqueued ~> (main_queue # << >> /\ isSteady(Head(main_queue))))

\* C17 witness: the steady-state effect enqueued while the startup Fade was
\* playing and a Blink was queued is now the active one
C17_Witness ==
    /\ op.name = "tick"
    /\ Len(main_queue) = 1 /\ main_queue[1] = StaticEffect(RED)
    /\ calls = 1 /\ main_elapsed = 0

\* the facade has queued a Blink while a steady-state effect is active
BlinkOnSteady ==
    /\ op.name = "blinkMainLighting" /\ main_controller # 0
    /\ isSteady(Head(main_queue))
    /\ \E i \in DOMAIN main_queue : main_queue[i].kind = "Blink"

BlinkActive == main_queue # << >> /\ Head(main_queue).kind = "Blink"

\* C18 as stated: a Blink requested while a steady-state effect is active
\* eventually becomes the active effect, and after it the zone is back to a
\* steady-state effect.
C18_Original ==
    /\ BlinkOnSteady ~> BlinkActive
    /\ BlinkActive ~> (main_queue # << >> /\ isSteady(Head(main_queue)))

PartyOn == main_controller # 0 /\ props[MODE_FLAG_PARTY]

PartyFadeEnqueued ==
    \E i \in DOMAIN evals : evals[i].party /\ evals[i].effect.kind = "Fade"

\* C19 as stated: as long as the party flag stays set, a new party Fade is
\* enqueued again and again.
C19_Original == []<>(~PartyOn \/ PartyFadeEnqueued)

\* C20 as stated: a party timer that fires when the party flag is off does
\* nothing: no effect is enqueued, the queue and the state of the controller
\* are unchanged, and no timer is started.
C20_Original ==
    [][(op'.name = "timer" /\ ~props[MODE_FLAG_PARTY])
          => /\ \A i \in DOMAIN evals' :
                    evals'[i].effect = NoEffect /\ ~evals'[i].timer
             /\ UNCHANGED << main_queue, main_elapsed, props, prefs,
                             main_color, runtime_flags, m_printer_state,
                             m_job_state >>
             /\ Len(party_timers') < Len(party_timers)
      ]_vars

\* C21 as stated: between the store of a handler and the end of its
\* re-evaluation no tick and no other re-evaluation of the zone runs, and a
\* step emits at most one frame to a sink.
C21_Original ==
    [][/\ handling.pc = "main_stored" => op'.name \notin {"tick", "timer"}
       /\ handling.pc = "ring_stored" => op'.name # "tick"
       /\ \A i, j \in DOMAIN frames' :
              frames'[i].zone = frames'[j].zone => i = j
      ]_vars

\* C22: once the controllers are constructed, which gives each zone its
\* first effect, no queue is empty again, and a tick emits exactly one frame
\* per zone, that of the head of the zone's queue.
C22_OneFramePerTick ==
    /\ running => main_queue # << >> /\ ring_queue # << >>
    /\ op.name = "tick"
       => /\ Len(frames) = 2
          /\ frames[1].zone = "main" /\ frames[1].effect = Head(main_queue)
          /\ frames[1].elapsed = main_elapsed
          /\ frames[2].zone = "ring" /\ frames[2].effect = Head(ring_queue)
          /\ frames[2].elapsed = ring_elapsed
    /\ op.name # "tick" => frames = << >>

\* C22 witness: the startup Fade has completed with nothing behind it; it
\* stays the active effect and the tick has emitted its frame
C22_Witness ==
    /\ op.name = "tick" /\ Len(main_queue) = 1
    /\ Head(main_queue).kind = "Fade"
    /\ isComplete(Head(main_queue), main_elapsed)
    /\ Len(frames) = 2 /\ frames[1].effect = Head(main_queue)

\* C23 as stated: every effect a re-evaluation of the main controller
\* enqueues has its value channel scaled by user_brightness / 100 (a state
\* colour, of raw value 100, to user_brightness itself), so that with
\* user_brightness 0 no enqueued effect has a non-zero value.
C23_Original ==
    \A i \in DOMAIN evals :
        evals[i].effect # NoEffect
            => /\ evals[i].user_brightness = 0
                    => evals[i].effect.color.value = 0
               /\ evals[i].effect.kind = "Static"
                    => evals[i].effect.color.value =
                           (100 * evals[i].user_brightness) \div 100

QueuedEffects == Range(main_queue) \cup Range(ring_queue)

\* C25: isComplete is monotone in elapsed for every queued effect, and false
\* at every elapsed for a Static and a Glow; a tick never takes a Static or a
\* Glow from the head of a queue.
C25_CompleteIsMonotone ==
    /\ \A e \in QueuedEffects :
          /\ \A t1 \in 0..Horizon, t2 \in 0..Horizon :
                (t1 <= t2 /\ isComplete(e, t1)) => isComplete(e, t2)
          /\ e.kind \in {"Static", "Glow"}
                => \A t \in 0..Horizon : ~isComplete(e, t)
          /\ e.kind \in {"Fade", "Blink"}
                => \E t \in 0..Horizon : isComplete(e, t)
    /\ (main_queue # << >> /\ isComplete(Head(main_queue), main_elapsed))
          => \A t \in main_elapsed..Horizon : isComplete(Head(main_queue), t)

\* C25 witness: a Blink that has completed is still the only entry of the
\* main queue, and the ring's startup Fade has completed too
C25_Witness ==
    /\ op.name = "tick" /\ Len(main_queue) = 1
    /\ Head(main_queue).kind = "Blink"
    /\ isComplete(Head(main_queue), main_elapsed)
    /\ Head(ring_queue).kind = "Fade"
    /\ isComplete(Head(ring_queue), ring_elapsed)

\* the 1.0 Hz Blink of three cycles
IsBlinkThrice(e) == e.kind = "Blink" /\ e.frequency = 10 /\ e.count = 3

\* C26: a Blink is complete exactly from count / frequency on (elapsed *
\* frequency >= count, in quarter seconds and tenths of a hertz); a frame it
\* emits before that is its colour in the first half of a cycle and of value
\* 0 in the second; the Blink of 3 cycles at 1.0 Hz is complete from 3.0 s
\* on, on at 0.25 s and off at 0.75 s.
C26_BlinkCyclesAndCompletes ==
    /\ \A e \in QueuedEffects :
          e.kind = "Blink"
            => /\ \A t \in 0..Horizon :
                     isComplete(e, t) <=> (t * e.frequency >= e.count * 40)
               /\ IsBlinkThrice(e)
                     => /\ ~isComplete(e, 11) /\ isComplete(e, 12)
                        /\ produceFrame(e, 1) = e.color
                        /\ produceFrame(e, 3) = [e.color EXCEPT !.value = 0]
    /\ \A i \in DOMAIN frames :
          (frames[i].effect.kind = "Blink"
           /\ ~isComplete(frames[i].effect, frames[i].elapsed))
            => frames[i].color =
                  IF (frames[i].elapsed * frames[i].effect.frequency) % 40 < 20
                  THEN frames[i].effect.color
                  ELSE [frames[i].effect.color EXCEPT !.value = 0]

\* C26 witness: the Blink of 3 cycles at 1.0 Hz is the active effect, 0.75 s
\* after it started, and the tick has emitted an off frame of it
C26_Witness ==
    /\ op.name = "tick" /\ IsBlinkThrice(Head(main_queue))
    /\ main_elapsed = 3
    /\ frames[1].effect = Head(main_queue)
    /\ frames[1].color.value = 0 /\ Head(main_queue).color.value > 0

\* the colour c with channel set to x
WithChannel(c, channel, x) ==
    CASE channel = "hue" -> [c EXCEPT !.hue = x]
      [] channel = "saturation" -> [c EXCEPT !.saturation = x]
      [] channel = "value" -> [c EXCEPT !.value = x]

\* the step is a call of setter that stores its argument in channel of a
\* main colour and leaves the other channels, and the ring's colour, alone
MainSetStores(setter, channel) ==
    (op'.name = setter /\ main_controller # 0)
        => /\ main_color' = WithChannel(main_color, channel, op'.value.number)
           /\ customTheme' = customTheme

RingSetStores(setter, channel) ==
    (op'.name = setter /\ button_ring_controller # 0)
        => /\ customTheme' = WithChannel(customTheme, channel,
                                        op'.value.number)
           /\ main_color' = main_color

\* the step is a call of getter right after a call of setter, on a
\* controller that exists, and returns what the setter was given
GetAfterSet(setter, getter, controller) ==
    (op.name = setter /\ op'.name = getter /\ controller # 0)
        => (~ret'.raised /\ ret'.value = op.value)

MainColourSetters ==
    {"setMainLightingHue", "setMainLightingSaturation",
     "setMainLightingBrightness"}

RingColourSetters ==
    {"setRingLightingHue", "setRingLightingSaturation",
     "setRingLightingBrightness"}

\* the effect the main policy selects in the state that e records, party off
MainPolicy(e) ==
    IF AnyRuntimeFlag(e)
    THEN LET c == e.main_color
             v == (c.value * e.user_brightness) \div 100
         IN  GlowEffect(HsvColor(c.hue, c.saturation, v),
                        HsvColor(c.hue, c.saturation, (v * 3) \div 10), 1)
    ELSE StaticEffect(StateColour(e.printer_state, e.job_state))

\* the effect the ring's policy selects in the state that e records
RingPolicy(e) ==
    IF e.printer_state = "error" THEN GlowEffect(BLACK, RED, 5)
    ELSE IF e.interaction_required THEN GlowEffect(BLACK, YELLOW, 5)
    ELSE IF e.printer_state = "printing" /\ e.job_state = "wait_cleanup"
    THEN GlowEffect(BLACK, PURPLE, 5)
    ELSE IF e.printer_state = "printing" /\ e.job_state = "paused"
    THEN GlowEffect(BLACK, CYAN, 5)
    ELSE StaticEffect(e.customTheme)

\* C28: a call of a colour setter on a constructed controller has made
\* exactly one re-evaluation of that zone, which has seen the colour as the
\* call has set it and has enqueued the effect the priority order selects:
\* on the ring of a printer in error Glow Black/Red and not the Static theme.
C28_SetterReevaluatesOnce ==
    /\ (op.name \in MainColourSetters /\ main_controller # 0)
          => /\ Len(evals) = 1 /\ r_evals = << >>
             /\ evals[1].main_color = main_color
             /\ op.value.number \in {main_color.hue, main_color.saturation,
                                      main_color.value}
             /\ evals[1].printer_state = m_printer_state
             /\ evals[1].effect = MainPolicy(evals[1])
             /\ main_queue[Len(main_queue)] = evals[1].effect
    /\ (op.name \in RingColourSetters /\ button_ring_controller # 0)
          => /\ Len(r_evals) = 1 /\ evals = << >>
             /\ r_evals[1].customTheme = customTheme
             /\ op.value.number \in {customTheme.hue, customTheme.saturation,
                                      customTheme.value}
             /\ r_evals[1].printer_state = r_printer_state
             /\ r_evals[1].effect = RingPolicy(r_evals[1])
             /\ r_printer_state = "error"
                   => r_evals[1].effect = GlowEffect(BLACK, RED, 5)
             /\ ring_queue[Len(ring_queue)] = r_evals[1].effect

\* C28 witness: the ring's hue has been set on a printer in error and the
\* re-evaluation has enqueued Glow Black/Red
C28_Witness ==
    /\ op.name = "setRingLightingHue" /\ button_ring_controller # 0
    /\ r_printer_state = "error" /\ customTheme.hue = 400
    /\ Len(r_evals) = 1 /\ r_evals[1].effect = GlowEffect(BLACK, RED, 5)

PropertyMutators ==
    {"setMainLightingModeFlag", "setMainLightingUserBrightness",
     "writeProperty"}

NonVolatileKeys == ALL_MODE_FLAGS \cup {"user_brightness"}

\* the property that the call recorded in o is about
MutatedKey(o) ==
    IF o.name = "setMainLightingUserBrightness" THEN "user_brightness"
    ELSE o.key

\* C29: a call that changes a mode flag or user_brightness of the main
\* controller (setModeFlag, setUserBrightness or a write to the property
\* itself) returns with the new value in the registry and with the priority
\* policy re-evaluated on the new value: the first re-evaluation of the call
\* has seen the property as the call leaves it, and a party Fade it has
\* selected carries the new user brightness.
C29_ChangeWritesThroughAndNotifies ==
    [][\A k \in NonVolatileKeys :
         (/\ main_controller # 0 /\ main_controller' # 0
          /\ op'.name \in PropertyMutators
          /\ props'[k] # props[k])
            => /\ MutatedKey(op') = k
               /\ ~ret'.raised
               /\ prefs'[k] = props'[k]
               /\ Len(evals') >= 1
               /\ evals'[1].party = props'[MODE_FLAG_PARTY]
               /\ evals'[1].user_brightness = props'["user_brightness"]
               /\ evals'[1].effect.kind = "Fade"
                     => evals'[1].effect.color.value =
                           props'["user_brightness"]]_vars

\* C29 witness: a call of setMainLightingUserBrightness has changed the
\* user brightness, the registry holds the new value and the call has
\* re-evaluated on it
C29_Witness ==
    /\ op.name = "setMainLightingUserBrightness" /\ op.value.number = 40
    /\ main_controller # 0
    /\ props["user_brightness"] = 40 /\ prefs["user_brightness"] = 40
    /\ Len(evals) = 1 /\ evals[1].user_brightness = 40

\* a Fade of party mode: to full saturation in the party fade time
IsPartyFade(e) ==
    /\ e.kind = "Fade" /\ e.duration = PARTY_FADE_TIME
    /\ e.color.saturation = PARTY_SATURATION

\* the party Fades waiting in the main queue behind the active effect
WaitingPartyFades ==
    { i \in 2..Len(main_queue) : IsPartyFade(main_queue[i]) }

\* C30: party mode never stacks: in every reachable state at most one party
\* timer is pending and at most one party Fade waits in the queue behind the
\* active effect, and a call of setModeFlag has started at most one timer.
C30_Original ==
    /\ Len(party_timers) <= 1
    /\ Cardinality(WaitingPartyFades) <= 1
    /\ op.name = "setMainLightingModeFlag"
          => Cardinality({ i \in DOMAIN evals : evals[i].timer }) <= 1

\* the number of transient effects in queue q
TransientCount(q) == Cardinality({ i \in DOMAIN q : isTransient(q[i]) })

\* C31: with party off, steady-state effects replace one another and do not
\* accumulate: after any notifications, setter calls, blink requests and
\* ticks the queue of each zone holds at most one effect more than the
\* transient effects still in it.
C31_SteadyEffectsDoNotAccumulate ==
    /\ (main_controller # 0 /\ ~props[MODE_FLAG_PARTY])
          => Len(main_queue) <= TransientCount(main_queue) + 1
    /\ button_ring_controller # 0
          => Len(ring_queue) <= TransientCount(ring_queue) + 1

\* C31 witness: a notification has re-evaluated the main zone while a Blink
\* waits behind the startup Fade, and the queue holds the two transient
\* effects and the one steady-state effect just requested
C31_Witness ==
    /\ op.name = "propertyChanged" /\ Len(evals) = 1
    /\ ~props[MODE_FLAG_PARTY]
    /\ Len(main_queue) = 3 /\ TransientCount(main_queue) = 2
    /\ main_queue[2].kind = "Blink"
    /\ main_queue[3] = evals[1].effect /\ evals[1].effect.kind = "Static"

\* the startup Fades in the queue of the ring
RingStartupFades(q) == SelectSeq(q, LAMBDA e : e.kind = "Fade")

\* C32: each controller holds a copy of its colour: a call of a colour
\* setter of the ring leaves the shared objects ULTIMAKER and WHITE, the
\* colour of the queued startup Fade and the main colour as they were, and a
\* call of a colour setter of the main zone leaves the shared objects and
\* the ring's colour as they were.
C32_ColoursAreCopies ==
    [][(op'.name \in MainColourSetters \cup RingColourSetters)
          => /\ colorTheme' = SharedColours
             /\ RingStartupFades(ring_queue') = RingStartupFades(ring_queue)
             /\ \A i \in DOMAIN ring_queue' :
                   ring_queue'[i].kind = "Fade"
                      => ring_queue'[i].color = ULTIMAKER
             /\ op'.name \in RingColourSetters
                   => main_color' = main_color
             /\ op'.name \in MainColourSetters
                   => customTheme' = customTheme]_vars

\* C32 witness: the hue of the ring has been set while the startup Fade to
\* ULTIMAKER is still queued, and the ring's colour differs from ULTIMAKER
C32_Witness ==
    /\ op.name = "setRingLightingHue" /\ button_ring_controller # 0
    /\ customTheme.hue = 400 /\ customTheme # colorTheme.ULTIMAKER
    /\ ring_queue # << >> /\ Head(ring_queue).kind = "Fade"
    /\ refs.customTheme = "own"

\* the startup Fade of the main zone for the settings in force
MainStartupFade ==
    FadeEffect(HsvColor(WHITE.hue, WHITE.saturation,
                        (WHITE.value * props["user_brightness"]) \div 100),
               STARTUP_FADE_TIME)

RingStartupFade == FadeEffect(ULTIMAKER, RING_STARTUP_FADE_TIME)

\* the zones as their constructors leave them, before the handlers run
JustConstructed ==
    /\ main_queue # << >> /\ main_queue[1] = MainStartupFade
    /\ main_elapsed = 0
    /\ ring_queue # << >> /\ ring_queue[1] = RingStartupFade
    /\ ring_elapsed = 0

\* The active effect e of a zone, when it is the startup Fade, is still
\* active after the step with no time lost, or the step is the tick at
\* which the Fade has played its whole time and gives way to the next entry
PlaysOn(e, q, elapsed, q2, elapsed2) ==
    (q # << >> /\ q[1] = e)
        => \/ q2 # << >> /\ q2[1] = e /\ elapsed2 >= elapsed
           \/ /\ op'.name = "tick" /\ elapsed + FineDt >= e.duration
              /\ q2 = Tail(q) /\ elapsed2 = 0

\* C33: the first effect of the main zone and of the ring is the 6.0 s
\* startup Fade that the constructor enqueues (main: to the user colour
\* limited by user_brightness, ring: to ULTIMAKER), ahead of every effect
\* derived from the state, and it stays the active effect until a tick finds
\* its time played, whatever notifications arrive meanwhile.
C33_StartupFadeFirstAndWhole ==
    /\ [](op.name = "__init__" /\ running
            => JustConstructed /\ Len(main_queue) = 1 /\ Len(ring_queue) = 1)
    /\ [][/\ (~running /\ running') => JustConstructed'
          /\ running
               => /\ PlaysOn(MainStartupFade, main_queue, main_elapsed,
                             main_queue', main_elapsed')
                  /\ PlaysOn(RingStartupFade, ring_queue, ring_elapsed,
                             ring_queue', ring_elapsed')]_vars

\* C33 witness: notifications have arrived during the startup fades, which
\* are still the active effects, with 5.75 s played, ahead of the effects
\* that the notifications have enqueued
C33_Witness ==
    /\ running /\ op.name = "propertyChanged"
    /\ Len(main_queue) = 2 /\ main_queue[1] = MainStartupFade
    /\ main_elapsed = STARTUP_FADE_TIME - 1
    /\ Len(ring_queue) = 2 /\ ring_queue[1] = RingStartupFade
    /\ ring_elapsed = RING_STARTUP_FADE_TIME - 1
    /\ props["user_brightness"] = 50

\* each zone shows the steady-state effect that its priority policy selects
\* for the state the controller holds (party off, no runtime flag)
ShowsSelectedEffects ==
    /\ main_queue # << >>
    /\ Head(main_queue) =
          StaticEffect(StateColour(m_printer_state, m_job_state))
    /\ ring_queue # << >>
    /\ Head(ring_queue) =
          RingPolicy([printer_state |-> r_printer_state,
                      job_state |-> r_job_state,
                      interaction_required |-> r_interaction_required,
                      customTheme |-> customTheme])

\* C34: at boot up the LEDs fade from off to the requested state: once the
\* controllers are constructed, with no notification and no call arriving,
\* each zone eventually shows the steady-state effect that the priority
\* policy selects for the printer state read at construction.
C34_Original == running ~> ShowsSelectedEffects

\* what the priority policy of each zone selects for the state W holds
MainSelected(W) == MainPolicy(Eval(W, NoEffect, FALSE))

RingSelected(W) == RingPolicy(RingEval(W, NoEffect))

\* in W each snapshot is the printer's value and the steady-state effect of
\* each queue, if there is one, is what the policy selects for the snapshot
Reconciled(W) ==
    /\ W.m_printer_state = W.printer.state
    /\ W.m_job_state = W.printer.job_state
    /\ W.r_printer_state = W.printer.state
    /\ W.r_job_state = W.printer.job_state
    /\ W.r_interaction_required = W.printer.interaction_required
    /\ \A i \in DOMAIN W.main_queue :
          isSteady(W.main_queue[i]) => W.main_queue[i] = MainSelected(W)
    /\ \A i \in DOMAIN W.ring_queue :
          isSteady(W.ring_queue[i]) => W.ring_queue[i] = RingSelected(W)

\* two notifications of different properties, delivered to W in this order
DeliverBoth(W, k1, v1, k2, v2) ==
    propertyChanged(propertyChanged(W, k1, v1, FALSE, 240),
                    k2, v2, FALSE, 240)

\* what a behaviour can tell of W: the snapshots and the two queues
Observed(W) ==
    << W.m_printer_state, W.m_job_state, W.r_printer_state, W.r_job_state,
       W.r_interaction_required, Steady(W.main_queue), Steady(W.ring_queue) >>

\* C35: with party off, once the controllers exist, the snapshot of every
\* monitored property is the value last delivered (or the one read at
\* construction), a notification has enqueued the effect that the policy
\* selects for the snapshot, which is the steady-state effect of the queue,
\* and two notifications of different properties leave the same snapshots
\* and the same steady-state effects in either order of delivery.
C35_ReconciliationConverges ==
    /\ []((running /\ ~props[MODE_FLAG_PARTY])
            => /\ Reconciled(Now)
               /\ \A k1 \in {"state", "job_state"},
                     k2 \in {"job_state", "interaction_required"} :
                     k1 # k2 =>
                       \A v1 \in PropertyValues(ReconcilePrinters, k1)
                                    \ {"booting"},
                          v2 \in PropertyValues(ReconcilePrinters, k2) :
                          Observed(DeliverBoth(Now, k1, v1, k2, v2))
                            = Observed(DeliverBoth(Now, k2, v2, k1, v1)))
    /\ [][(running /\ ~props[MODE_FLAG_PARTY]
           /\ op'.name = "propertyChanged")
            => /\ op'.key # "interaction_required"
                    => /\ Len(evals') = 1
                       /\ evals'[1].effect = MainSelected(Now)'
                       /\ main_queue'[Len(main_queue')] = MainSelected(Now)'
               /\ Len(r_evals') = 1
               /\ r_evals'[1].effect = RingSelected(Now)'
               /\ ring_queue'[Len(ring_queue')] = RingSelected(Now)']_vars

\* C35 witness: job_state "paused" has been delivered after the state
\* "printing" and both zones have gone to the effect for the pair: Static
\* Cyan on the main zone, Glow Black/Cyan on the ring
C35_Witness ==
    /\ running /\ op.name = "propertyChanged" /\ op.key = "job_state"
    /\ m_printer_state = "printing" /\ m_job_state = "paused"
    /\ ~r_interaction_required
    /\ main_queue[Len(main_queue)] = StaticEffect(CYAN)
    /\ ring_queue[Len(ring_queue)] = GlowEffect(BLACK, CYAN, 5)

MainMonitored == {"state", "job_state"}

RingMonitored == {"state", "job_state", "interaction_required"}

ServiceMonitored == {"state"}

\* the state of the main controller, of the ring controller, of the service
MainZone ==
    << props, prefs, main_color, runtime_flags, m_printer_state, m_job_state,
       main_queue, main_elapsed, party_timers >>

RingZone ==
    << r_printer_state, r_job_state, r_interaction_required, customTheme,
       ring_queue, ring_elapsed >>

ServiceState ==
    << running, main_controller, button_ring_controller, ring_hardware,
       starts, left_booting >>

\* C36: a notification of a property that a listener does not monitor
\* leaves that listener as it was, without a re-evaluation: the main
\* controller reacts to "state" and "job_state" only, the ring controller
\* to "state", "job_state" and "interaction_required" only, the service to
\* "state" only; a notification of a monitored property makes exactly one
\* re-evaluation of the zone.
C36_OnlyMonitoredProperties ==
    [][(op'.name = "propertyChanged")
         => /\ main_controller # 0
                 => IF op'.key \in MainMonitored
                    THEN Len(evals') = 1
                    ELSE evals' = << >> /\ UNCHANGED MainZone
            /\ ring_hardware # "none"
                 => IF op'.key \in RingMonitored
                    THEN Len(r_evals') = 1
                    ELSE r_evals' = << >> /\ UNCHANGED RingZone
            /\ op'.key \notin ServiceMonitored
                 => UNCHANGED ServiceState]_vars

\* C36 witness: interaction_required has been delivered: the ring has
\* re-evaluated and glows Black/Yellow, the main zone has not re-evaluated
C36_Witness ==
    /\ op.name = "propertyChanged" /\ op.key = "interaction_required"
    /\ main_controller # 0 /\ evals = << >>
    /\ r_interaction_required /\ Len(r_evals) = 1
    /\ r_evals[1].effect = GlowEffect(BLACK, YELLOW, 5)
    /\ main_queue # << >>

\* the machine has a button ring: its BOM type id is 9066 or 9511
HasRing == machine_bom = "9066" \/ machine_bom = "9511"

\* C37: the ring facade refers to a controller on the machine types 9066
\* and 9511 only, and there as soon as the service has started.  On every
\* other machine type the ring getters return 0.0 and the ring setters
\* return without changing anything, in every state, also with the main
\* controller ready, while the ring controller built on the dummy hardware
\* has its queue and re-evaluates on the notifications it receives.
C37_RingOnlyOnRingMachines ==
    /\ [](/\ button_ring_controller # 0 <=> (running /\ HasRing)
          /\ running
               => /\ main_controller # 0 /\ ring_queue # << >>
                  /\ ring_hardware = IF HasRing THEN "ButtonRingHardware"
                                     ELSE "DummyHardware"
          /\ (op.name \in RingGetters /\ ~HasRing)
               => ~ret.raised /\ ret.value = Float(0))
    /\ [][/\ (op'.name \in RingColourSetters /\ ~HasRing) => SilentNoOp
          /\ (op'.name = "propertyChanged" /\ ring_hardware = "DummyHardware")
               => /\ Len(r_evals') = 1
                  /\ ring_queue'[Len(ring_queue')] = r_evals'[1].effect
                  /\ button_ring_controller' = 0]_vars

\* C37 witness: on machine type 9051, with the main controller ready and
\* the ring controller on the dummy hardware having enqueued the glow of an
\* error, the hue getter of the ring has returned 0.0 as the second call of
\* the facade, and the ring's colour is the one its constructor has set
C37_Witness ==
    /\ machine_bom = "9051" /\ main_controller # 0
    /\ ring_hardware = "DummyHardware" /\ button_ring_controller = 0
    /\ op.name = "getRingLightingHue" /\ ret.value = Float(0)
    /\ calls = 2 /\ customTheme = ULTIMAKER
    /\ ring_queue[Len(ring_queue)] = GlowEffect(BLACK, RED, 5)

====
